---- MODULE Spec2Model ----
(***************************************************************************)
(* Query-based replication (QRep) orchestrator of peerdb:                  *)
(* flow/workflows/qrep_flow.go.  One run of QRepFlowWorkflow is one cycle; *)
(* the run ends by returning an error, by returning nil (entered           *)
(* COMPLETED) or by continue-as-new, which starts the next run with the    *)
(* config and the state handed forward.  Every action is the code between  *)
(* two suspension points of the workflow (an activity, a child future, a   *)
(* selector, a signal receive), or a step of its environment (a child      *)
(* settles, a signal is sent, the context is cancelled).                   *)
(***************************************************************************)
EXTENDS Integers, Sequences, FiniteSets, TLC

\* ------------------------------------------------------------ bounds
\* most partitions one GetQRepPartitions call returns in a cycle
MaxParts == 2
\* most partitions in the partition list handed to processPartitions alone
MaxBatchParts == 5
\* largest config.MaxParallelWorkers drawn (0 stands for "not configured")
MaxWorkers == 2
\* largest config.MaxParallelWorkers drawn for processPartitions alone
MaxBatchWorkers == 4
\* most continue-as-new restarts of the workflow
MaxRuns == 1
\* most signals pending on the flow-signal channel
MaxSignals == 2
\* largest WaitBetweenBatchesSeconds of a config
MaxWaitSeconds == 2
\* continue-as-new restarts of the wait loop that are followed
MaxWaitRuns == 2
\* table mappings of a snapshot flow
MaxTables == 3
\* largest SnapshotNumTablesInParallel of a snapshot flow
MaxTablesInParallel == 2

\* ------------------------------------------------------------ program constants
\* maxParallelWorkers when config.MaxParallelWorkers is not positive
DefaultMaxParallelWorkers == 16

\* InitialLastPartition: PartitionId "not-applicable-partition", Range nil.
\* A partition is identified by the upper end of its watermark range, a
\* positive integer; 0 is the sentinel.
InitialLastPartition == 0

FlowStatuses ==
    {"STATUS_SETUP", "STATUS_RUNNING", "STATUS_PAUSING", "STATUS_PAUSED",
     "STATUS_COMPLETED", "STATUS_FAILED"}

\* payloads of the flow-signal channel
Signals == {"NoopSignal", "PauseSignal", "ResumeSignal"}

\* the payloads a client sends: a pause or a resume.  FlowSignalHandler folds
\* a NoopSignal payload exactly as it folds a ResumeSignal.
ClientSignals == Signals \ {"NoopSignal"}

\* ------------------------------------------------------------ pure helpers
Last(s) == s[Len(s)]

Min(a, b) == IF a < b THEN a ELSE b

\* shared.DivCeil: the integer ceiling of x / y
DivCeil(x, y) == (x + y - 1) \div y

\* model.FlowSignalHandler: folds a received signal into the active one.
\* A pause takes effect on a flow that is not paused; a non-pause signal
\* resumes a paused flow.
FlowSignalHandler(active, v) ==
    CASE v = "PauseSignal" -> IF active = "NoopSignal" THEN "PauseSignal" ELSE active
      [] OTHER -> IF active = "PauseSignal" THEN "NoopSignal" ELSE active

RECURSIVE FoldSignals(_, _)
FoldSignals(active, chan) ==
    IF chan = << >> THEN active
    ELSE FoldSignals(FlowSignalHandler(active, Head(chan)), Tail(chan))

\* newQRepFlowState
newQRepFlowState ==
    [LastPartition |-> InitialLastPartition,
     NumPartitionsProcessed |-> 0,
     NeedsResync |-> TRUE,
     CurrentFlowStatus |-> "STATUS_RUNNING"]

\* the default taken for one worker as well
EffectiveMaxParallelWorkersAboveOne(cfg) ==
    IF cfg.MaxParallelWorkers > 1 THEN cfg.MaxParallelWorkers
    ELSE DefaultMaxParallelWorkers

\* QRepFlowWorkflow: maxParallelWorkers := 16, or config.MaxParallelWorkers when > 0
EffectiveMaxParallelWorkers(cfg) ==
    IF cfg.MaxParallelWorkers > 0 THEN cfg.MaxParallelWorkers
    ELSE DefaultMaxParallelWorkers

\* a chunk size equal to the number of workers
ChunkSizeIsWorkers(parts, maxParallelWorkers) == maxParallelWorkers

\* processPartitions: chunkSize := DivCeil(len(partitions), maxParallelWorkers)
ChunkSize(parts, maxParallelWorkers) == DivCeil(Len(parts), maxParallelWorkers)

\* slicing that stops before a last, shorter slice
RECURSIVE ChunksDroppingRemainder(_, _, _)
ChunksDroppingRemainder(parts, i, chunkSize) ==
    IF i + chunkSize > Len(parts) THEN << >>
    ELSE <<SubSeq(parts, i + 1, i + chunkSize)>>
         \o ChunksDroppingRemainder(parts, i + chunkSize, chunkSize)

\* processPartitions: the slices partitions[i:min(i+chunkSize, len)] for
\* i = 0, chunkSize, 2*chunkSize, ... < len(partitions)
RECURSIVE Chunks(_, _, _)
Chunks(parts, i, chunkSize) ==
    IF i >= Len(parts) THEN << >>
    ELSE LET end == Min(i + chunkSize, Len(parts))
         IN  <<SubSeq(parts, i + 1, end)>> \o Chunks(parts, i + chunkSize, chunkSize)

\* processPartitions: the QRepPartitionBatch of every child, in spawn order:
\* BatchId = index + 1
Batches(parts, maxParallelWorkers) ==
    LET slices == Chunks(parts, 0, ChunkSize(parts, maxParallelWorkers))
    IN  [i \in 1..Len(slices) |-> [BatchId |-> i, Partitions |-> slices[i]]]

\* GetQRepPartitions: the n partitions that follow the cursor `last`
PartitionsAfter(last, n) == [i \in 1..n |-> last + i]

\* a state advance that moves the cursor and does not count the partitions
AdvanceStateNotCounting(st, parts, fullRef) ==
    IF Len(parts) > 0 /\ ~fullRef
    THEN [st EXCEPT !.LastPartition = Last(parts)]
    ELSE st

\* a state advance that moves the cursor under fullRefresh as well
AdvanceStateIgnoringFullRefresh(st, parts, fullRef) ==
    LET st1 == [st EXCEPT !.NumPartitionsProcessed = @ + Len(parts)]
    IN  IF Len(parts) > 0
        THEN [st1 EXCEPT !.LastPartition = Last(parts)]
        ELSE st1

\* QRepFlowWorkflow, the state advance after a cycle's work:
\* NumPartitionsProcessed += len(partitions); LastPartition moves to the
\* last partition when the list is not empty and fullRefresh is not set
AdvanceState(st, parts, fullRef) ==
    LET st1 == [st EXCEPT !.NumPartitionsProcessed = @ + Len(parts)]
    IN  IF Len(parts) > 0 /\ ~fullRef
        THEN [st1 EXCEPT !.LastPartition = Last(parts)]
        ELSE st1

\* ------------------------------------------------------------ state
VARIABLES
    config,          \* *protos.QRepConfig of the run (q.config)
    state,           \* *protos.QRepFlowState of the run
    entryState,      \* the state argument the run was started with
    pc,              \* where the run of QRepFlowWorkflow stands
    err,             \* the error the run returned: "none" or the failing step
    activeSignal,    \* q.activeSignal
    signalChan,      \* signals sent and not yet received
    cancelled,       \* ctx.Err() != nil
    fullRefresh,     \* local fullRefresh
    lastPartition,   \* local lastPartition
    waitChild,       \* the QRepWaitForNewRowsWorkflow child: none/running/ok/failed
    newRows,         \* local newRows of waitForNewRows
    getLast,         \* the cursor handed to GetQRepPartitions in this run, or -1
    partitions,      \* partitions.Partitions of this run
    discovered,      \* whether GetQRepPartitions returned in this run
    batches,         \* the QRepPartitionBatch of every child started, in spawn order
    children,        \* the state of every child started: running/ok/failed
    waitIdx,         \* number of child futures processPartitions has got
    calls,           \* the activities and child workflows this run has started
    runs,            \* number of continue-as-new restarts so far
    isRoot,          \* workflow.GetInfo(ctx).ParentWorkflowExecution == nil
    queryHandlers,   \* whether this run has set its two query handlers
    catalog,         \* the statuses this run has passed to syncStatusToCatalog
    \* QRepWaitForNewRowsWorkflow
    waitPc,          \* where the run of QRepWaitForNewRowsWorkflow stands
    waitConfig,      \* its argument config
    waitLastPartition, \* its argument lastPartition
    hasNewRows,      \* local hasNewRows
    waitFullRefresh, \* local fullRefresh
    slept,           \* seconds handed to workflow.Sleep in this run, 0: no sleep
    waitCancelled,   \* ctx.Err() != nil
    continuedWith,   \* the arguments of NewContinueAsNewError
    waitRuns,        \* number of continue-as-new restarts of the loop so far
    \* SnapshotFlowWorkflow
    snapPc,          \* where the run of SnapshotFlowWorkflow stands
    snapConfig,      \* *protos.FlowConnectionConfigs
    snapErr,         \* the error the run returned: "none" or the failing step
    snapCancelled,   \* ctx.Err() != nil
    slotInfo,        \* the SetupReplicationOutput of setupReplication
    txnSnapshotState, \* the TxSnapshotState of WaitForExportSnapshot
    fMaintain,       \* the MaintainTx future: none/running/ok/failed
    fExportSnapshot, \* the WaitForExportSnapshot future: none/running/ok/failed
    cloneArgs,       \* the arguments cloneTables was called with
    tableIdx,        \* number of table mappings cloneTables has gone through
    clones,          \* the clone children spawned, in spawn order
    closeSlotCalls,  \* the CloseSlotKeepAlive activities started
    txLostInFlight,  \* MaintainTx ended while a clone child was in flight
    \* dynLookup
    lookupInput,     \* the catalog, the environment and the key of a lookup
    lookupResult,    \* the (string, error) dynLookup returned
    \* ClickHouseConnector.CleanupQRepFlow
    stagePc,         \* where the call of CleanupQRepFlow stands
    stagingPath,     \* config.StagingPath
    job,             \* config.FlowJobName
    stageErr,        \* the error the call returned: "none" or the failing step
    objects,         \* the objects of the staging bucket
    prefix,          \* local prefix of dropStage
    page,            \* page.Contents not yet gone through
    hasMorePages,    \* pages.HasMorePages()
    deleted,         \* the objects DeleteObject has removed so far
    cleanups,        \* number of calls of CleanupQRepFlow that have returned
    firstEnd         \* the bucket as the first call without an error left it

qrepVars == <<config, state, entryState, pc, err, activeSignal, signalChan,
              cancelled, fullRefresh, lastPartition, waitChild, newRows, getLast,
              partitions, discovered, batches, children, waitIdx, calls, runs,
              isRoot, queryHandlers, catalog>>
observers == <<isRoot, queryHandlers, catalog>>
waitVars == <<waitPc, waitConfig, waitLastPartition, hasNewRows, waitFullRefresh,
              slept, waitCancelled, continuedWith, waitRuns>>
snapVars == <<snapPc, snapConfig, snapErr, snapCancelled, slotInfo,
              txnSnapshotState, fMaintain, fExportSnapshot, cloneArgs, tableIdx,
              clones, closeSlotCalls, txLostInFlight>>
lookupVars == <<lookupInput, lookupResult>>
stageVars == <<stagePc, stagingPath, job, stageErr, objects, prefix, page,
               hasMorePages, deleted, cleanups, firstEnd>>
others == <<waitVars, snapVars, lookupVars, stageVars>>
vars == <<qrepVars, others>>

env == <<signalChan, cancelled>>
locals == <<fullRefresh, lastPartition, waitChild, newRows, getLast,
            partitions, discovered, batches, children, waitIdx>>

Configs ==
    [InitialCopyOnly : BOOLEAN,
     DstTableFullResync : BOOLEAN,
     Overwrite : BOOLEAN,
     MaxParallelWorkers : 0..MaxWorkers,
     ResyncSuffixes : {0}]

\* ResyncSuffixes counts how many times "_peerdb_resync" ends
\* config.DestinationTableIdentifier: 0 is the original name "t",
\* 1 is the shadow table "t_peerdb_resync".

NoLocals ==
    /\ fullRefresh = FALSE
    /\ lastPartition = InitialLastPartition
    /\ waitChild = "none"
    /\ newRows = FALSE
    /\ getLast = -1
    /\ partitions = << >>
    /\ discovered = FALSE
    /\ batches = << >>
    /\ children = << >>
    /\ waitIdx = 0
    /\ calls = << >>

\* no QRepWaitForNewRowsWorkflow is followed
IdleWait ==
    /\ waitPc = "idle"
    /\ waitConfig = "none"
    /\ waitLastPartition = InitialLastPartition
    /\ hasNewRows = FALSE
    /\ waitFullRefresh = FALSE
    /\ slept = 0
    /\ waitCancelled = FALSE
    /\ continuedWith = "none"
    /\ waitRuns = 0

\* res := &protos.SetupReplicationOutput{}
NoSlotInfo == [SlotName |-> "", SnapshotName |-> ""]

\* var txnSnapshotState *activities.TxSnapshotState: nil, no snapshot name
NoTxSnapshotState == [SnapshotName |-> ""]

\* cloneTables has not been called
NoCloneArgs ==
    [snapshotType |-> "SNAPSHOT_TYPE_UNKNOWN",
     slotName |-> "",
     snapshotName |-> "",
     maxParallelClones |-> 0]

\* no SnapshotFlowWorkflow is followed
IdleSnapshot ==
    /\ snapPc = "idle"
    /\ snapConfig = "none"
    /\ snapErr = "none"
    /\ snapCancelled = FALSE
    /\ slotInfo = NoSlotInfo
    /\ txnSnapshotState = NoTxSnapshotState
    /\ fMaintain = "none"
    /\ fExportSnapshot = "none"
    /\ cloneArgs = NoCloneArgs
    /\ tableIdx = 0
    /\ clones = << >>
    /\ closeSlotCalls = << >>
    /\ txLostInFlight = FALSE

\* dynLookup has not returned
NoLookupResult == [val |-> "", err |-> "pending"]

\* no dynLookup is followed
IdleLookup ==
    /\ lookupInput = "none"
    /\ lookupResult = NoLookupResult

\* the bucket as no call has left it yet
NoFirstEnd == [done |-> FALSE, objects |-> {}]

\* no CleanupQRepFlow is followed
IdleStage ==
    /\ stagePc = "idle"
    /\ stagingPath = << >>
    /\ job = << >>
    /\ stageErr = "none"
    /\ objects = {}
    /\ prefix = << >>
    /\ page = {}
    /\ hasMorePages = FALSE
    /\ deleted = {}
    /\ cleanups = 0
    /\ firstEnd = NoFirstEnd

\* no QRepFlowWorkflow is followed
IdleQRep ==
    /\ config = "none"
    /\ state = newQRepFlowState
    /\ entryState = newQRepFlowState
    /\ pc = "idle"
    /\ err = "none"
    /\ activeSignal = "NoopSignal"
    /\ signalChan = << >>
    /\ cancelled = FALSE
    /\ NoLocals
    /\ runs = 0
    /\ isRoot = TRUE
    /\ queryHandlers = FALSE
    /\ catalog = << >>

\* the configs cloneTable gives the QRepFlowWorkflow children it spawns:
\* InitialCopyOnly, no DstTableFullResync, WriteMode APPEND or UPSERT, and
\* numWorkers as MaxParallelWorkers
CloneConfigs ==
    [InitialCopyOnly : {TRUE},
     DstTableFullResync : {FALSE},
     Overwrite : {FALSE},
     MaxParallelWorkers : 1..MaxWorkers,
     ResyncSuffixes : {0}]

\* The first run: QRepFlowWorkflow(ctx, config, nil), state = newQRepFlowState(),
\* started by a client, or as the table clone of a snapshot flow
Init ==
    /\ isRoot \in BOOLEAN
    /\ config \in IF isRoot THEN Configs ELSE CloneConfigs
    /\ queryHandlers = FALSE
    /\ catalog = << >>
    /\ IdleWait /\ IdleSnapshot /\ IdleLookup /\ IdleStage
    /\ state = newQRepFlowState
    /\ entryState = newQRepFlowState
    /\ pc = "start"
    /\ err = "none"
    /\ activeSignal = "NoopSignal"
    /\ signalChan = << >>
    /\ cancelled = FALSE
    /\ NoLocals
    /\ runs = 0

\* the locals of a fresh run
ResetLocals ==
    /\ fullRefresh' = FALSE
    /\ lastPartition' = InitialLastPartition
    /\ waitChild' = "none"
    /\ newRows' = FALSE
    /\ getLast' = -1
    /\ partitions' = << >>
    /\ discovered' = FALSE
    /\ batches' = << >>
    /\ children' = << >>
    /\ waitIdx' = 0
    /\ calls' = << >>

\* ------------------------------------------------------------ run endings
\* return state, err
ReturnError(e) ==
    /\ pc' = "failed"
    /\ err' = e

\* workflow.ExecuteActivity / workflow.ExecuteChildWorkflow: the run starts
\* the activities or child workflows `ops`, in that order, each with the
\* config as it stands (ResyncSuffixes is its DestinationTableIdentifier)
Called(ops) ==
    calls' = calls \o [i \in 1..Len(ops) |->
                          [op |-> ops[i], dest |-> config.ResyncSuffixes]]

\* an updateStatus that passes the status to syncStatusToCatalog whether the
\* run has a parent or not
SyncedByChildren(statuses) ==
    catalog' = catalog \o statuses

\* updateStatus, its second half: the status is passed to syncStatusToCatalog
\* when the run has no parent workflow execution
Synced(statuses) ==
    catalog' = IF isRoot THEN catalog \o statuses ELSE catalog

\* the handler of the query "qrep-flow-state": return state, nil
QRepFlowStateQuery == state

\* a status handler that answers from the state as it was handed to the run
FlowStatusQueryOfEntryState == entryState.CurrentFlowStatus

\* the handler of the query "flow-status": return state.CurrentFlowStatus, nil
FlowStatusQuery == state.CurrentFlowStatus

\* a flush that receives one pending signal only
FlushOneAndContinue(st, active, chan) ==
    LET folded == IF chan = << >> THEN active
                  ELSE FlowSignalHandler(active, Head(chan))
    IN  /\ activeSignal' = folded
        /\ signalChan' = IF chan = << >> THEN chan ELSE Tail(chan)
        /\ state' = IF folded = "PauseSignal"
                     THEN [st EXCEPT !.CurrentFlowStatus = "STATUS_PAUSED"]
                     ELSE st
        /\ IF folded = "PauseSignal"
           THEN Synced(<<"STATUS_PAUSED">>)
           ELSE UNCHANGED catalog
        /\ pc' = "continued"

\* the signal flush and the continue-as-new that end a cycle: every signal
\* pending on `chan` is folded into the active signal, and the status handed
\* forward is PAUSED when the folded signal is a pause
FlushAndContinue(st, active, chan) ==
    LET folded == FoldSignals(active, chan)
    IN  /\ activeSignal' = folded
        /\ signalChan' = << >>
        /\ state' = IF folded = "PauseSignal"
                     THEN [st EXCEPT !.CurrentFlowStatus = "STATUS_PAUSED"]
                     ELSE st
        /\ IF folded = "PauseSignal"
           THEN Synced(<<"STATUS_PAUSED">>)
           ELSE UNCHANGED catalog
        /\ pc' = "continued"

\* ------------------------------------------------------------ the run
\* An activity future of the orchestrator (none sets WaitForCancellation)
\* yields a CanceledError once the context is cancelled; otherwise the
\* activity ends with or without an error.
ActivityOutcomes == IF cancelled THEN {"error"} ELSE {"ok", "error"}

\* an entry without the COMPLETED check
EnterIgnoringCompleted ==
    /\ pc = "start"
    /\ queryHandlers' = TRUE
    /\ IF state.CurrentFlowStatus \in {"STATUS_PAUSING", "STATUS_PAUSED"}
       THEN /\ activeSignal' = "PauseSignal"
            /\ state' = [state EXCEPT !.CurrentFlowStatus = "STATUS_PAUSED"]
            /\ Synced(<<"STATUS_PAUSED">>)
            /\ pc' = "paused"
       ELSE /\ activeSignal' = "NoopSignal"
            /\ pc' = "setupWatermark"
            /\ UNCHANGED <<state, catalog>>
    /\ UNCHANGED <<config, entryState, err, env, locals, calls, runs, isRoot, others>>

\* QRepFlowWorkflow up to its first suspension point: the query handlers,
\* the COMPLETED check, and the entry of the pause gate
Enter ==
    /\ pc = "start"
    /\ queryHandlers' = TRUE
    /\ IF state.CurrentFlowStatus = "STATUS_COMPLETED"
       THEN /\ pc' = "returned"
            /\ UNCHANGED <<state, activeSignal, catalog>>
       ELSE IF state.CurrentFlowStatus \in {"STATUS_PAUSING", "STATUS_PAUSED"}
       THEN /\ activeSignal' = "PauseSignal"
            /\ state' = [state EXCEPT !.CurrentFlowStatus = "STATUS_PAUSED"]
            /\ Synced(<<"STATUS_PAUSED">>)
            /\ pc' = "paused"
       ELSE /\ activeSignal' = "NoopSignal"
            /\ pc' = "setupWatermark"
            /\ UNCHANGED <<state, catalog>>
    /\ UNCHANGED <<config, entryState, err, env, locals, calls, runs, isRoot, others>>

\* a pause gate that is left without the status update to RUNNING
PauseGateReceiveKeepingStatus ==
    /\ pc = "paused"
    /\ signalChan # << >>
    /\ LET folded == FlowSignalHandler(activeSignal, Head(signalChan))
       IN  /\ activeSignal' = folded
           /\ signalChan' = Tail(signalChan)
           /\ pc' = IF folded = "PauseSignal" THEN pc ELSE "setupWatermark"
    /\ UNCHANGED <<config, state, entryState, err, cancelled, locals, calls, runs, observers, others>>

\* the pause gate: signalChan.ReceiveWithTimeout returned a signal
PauseGateReceive ==
    /\ pc = "paused"
    /\ signalChan # << >>
    /\ LET folded == FlowSignalHandler(activeSignal, Head(signalChan))
       IN  /\ activeSignal' = folded
           /\ signalChan' = Tail(signalChan)
           /\ IF folded = "PauseSignal"
              THEN UNCHANGED <<state, pc, catalog>>
              ELSE /\ state' = [state EXCEPT !.CurrentFlowStatus = "STATUS_RUNNING"]
                   /\ Synced(<<"STATUS_RUNNING">>)
                   /\ pc' = "setupWatermark"
    /\ UNCHANGED <<config, entryState, err, cancelled, locals, calls, runs, isRoot, queryHandlers, others>>

\* a receive timeout that ends the pause
PauseGateTimeoutLeavesGate ==
    /\ pc = "paused"
    /\ signalChan = << >>
    /\ ~cancelled
    /\ activeSignal' = "NoopSignal"
    /\ state' = [state EXCEPT !.CurrentFlowStatus = "STATUS_RUNNING"]
    /\ Synced(<<"STATUS_RUNNING">>)
    /\ pc' = "setupWatermark"
    /\ UNCHANGED <<config, entryState, err, env, locals, calls, runs, isRoot, queryHandlers, others>>

\* the pause gate: no signal came within the minute of ReceiveWithTimeout and
\* ctx.Err() is nil; the loop goes round with activeSignal still a pause
PauseGateTimeout ==
    /\ pc = "paused"
    /\ signalChan = << >>
    /\ ~cancelled
    /\ UNCHANGED vars

\* a cancelled pause gate that goes on with the cycle
PauseGateCancelledProceeding ==
    /\ pc = "paused"
    /\ signalChan = << >>
    /\ cancelled
    /\ pc' = "setupWatermark"
    /\ UNCHANGED <<config, state, entryState, err, activeSignal, env, locals, calls, runs, observers, others>>

\* the pause gate: the receive returned nothing and ctx.Err() is not nil
PauseGateCancelled ==
    /\ pc = "paused"
    /\ signalChan = << >>
    /\ cancelled
    /\ ReturnError("pauseGate")
    /\ UNCHANGED <<config, state, entryState, activeSignal, env, locals, calls, runs, observers, others>>

\* setupWatermarkTableOnDestination: SetupTableSchema, then CreateNormalizedTable
\* when config.SetupWatermarkTableOnDestination is set.  No other step reads
\* that field, so it is an input of this step.
SetupWatermarkTableOnDestination ==
    /\ pc = "setupWatermark"
    /\ \E setupWatermarkTable \in BOOLEAN :
          IF setupWatermarkTable
          THEN \E r \in ActivityOutcomes :
                  IF r = "ok"
                  THEN /\ Called(<<"SetupTableSchema", "CreateNormalizedTable">>)
                       /\ pc' = "setupMetadata"
                       /\ UNCHANGED err
                  ELSE /\ \/ Called(<<"SetupTableSchema">>)
                          \/ Called(<<"SetupTableSchema", "CreateNormalizedTable">>)
                       /\ ReturnError("setupWatermark")
          ELSE pc' = "setupMetadata" /\ UNCHANGED <<err, calls>>
    /\ UNCHANGED <<config, state, entryState, activeSignal, env, locals, runs, observers, others>>

\* SetupMetadataTables: the SetupQRepMetadataTables activity
SetupMetadataTables ==
    /\ pc = "setupMetadata"
    /\ Called(<<"SetupQRepMetadataTables">>)
    /\ \E r \in ActivityOutcomes :
          IF r = "ok" THEN pc' = "createResync" /\ UNCHANGED err
          ELSE ReturnError("setupMetadata")
    /\ UNCHANGED <<config, state, entryState, activeSignal, env, locals, runs, observers, others>>

\* a shadow-table creation that does not look at NeedsResync
HandleTableCreationWithoutNeedsResync ==
    /\ pc = "createResync"
    /\ IF config.DstTableFullResync
       THEN /\ Called(<<"CreateTablesFromExisting">>)
            /\ \E r \in ActivityOutcomes :
                  IF r = "ok"
                  THEN /\ config' = [config EXCEPT !.ResyncSuffixes = @ + 1]
                       /\ pc' = "cursor"
                       /\ UNCHANGED err
                  ELSE /\ ReturnError("createResync")
                       /\ UNCHANGED config
       ELSE /\ pc' = "cursor"
            /\ UNCHANGED <<config, err, calls>>
    /\ UNCHANGED <<state, entryState, activeSignal, env, locals, runs, observers, others>>

\* a shadow-table creation that leaves the destination identifier as it was
HandleTableCreationKeepingName ==
    /\ pc = "createResync"
    /\ IF state.NeedsResync /\ config.DstTableFullResync
       THEN /\ Called(<<"CreateTablesFromExisting">>)
            /\ \E r \in ActivityOutcomes :
                  IF r = "ok"
                  THEN pc' = "cursor" /\ UNCHANGED err
                  ELSE ReturnError("createResync")
       ELSE /\ pc' = "cursor"
            /\ UNCHANGED <<err, calls>>
    /\ UNCHANGED <<config, state, entryState, activeSignal, env, locals, runs, observers, others>>

\* handleTableCreationForResync: CreateTablesFromExisting of the shadow table,
\* then q.config.DestinationTableIdentifier += "_peerdb_resync"
HandleTableCreationForResync ==
    /\ pc = "createResync"
    /\ IF state.NeedsResync /\ config.DstTableFullResync
       THEN /\ Called(<<"CreateTablesFromExisting">>)
            /\ \E r \in ActivityOutcomes :
                  IF r = "ok"
                  THEN /\ config' = [config EXCEPT !.ResyncSuffixes = @ + 1]
                       /\ pc' = "cursor"
                       /\ UNCHANGED err
                  ELSE /\ ReturnError("createResync")
                       /\ UNCHANGED config
       ELSE /\ pc' = "cursor"
            /\ UNCHANGED <<config, err, calls>>
    /\ UNCHANGED <<state, entryState, activeSignal, env, locals, runs, observers, others>>

\* QRepFlowWorkflow: the cursor handed to getPartitions
DiscoveryCursor == state.LastPartition

\* QRepFlowWorkflow, cursor selection: fullRefresh from the setting oracle in
\* OVERWRITE mode, the rewind of the local lastPartition, and the start of
\* waitForNewRows (the child workflow and the first test of its loop)
CursorSelection ==
    /\ pc = "cursor"
    /\ \E oracle \in BOOLEAN :
          /\ fullRefresh' = (config.Overwrite /\ oracle)
          /\ lastPartition' = IF fullRefresh' THEN InitialLastPartition
                              ELSE state.LastPartition
    /\ IF ~config.InitialCopyOnly
       THEN /\ waitChild' = "running"
            /\ Called(<<"QRepWaitForNewRowsWorkflow">>)
            /\ IF cancelled
               THEN ReturnError("ctx")
               ELSE pc' = "waiting" /\ UNCHANGED err
       ELSE /\ pc' = "getPartitions"
            /\ UNCHANGED <<waitChild, err, calls>>
    /\ UNCHANGED <<config, state, entryState, activeSignal, env, newRows, getLast,
                   partitions, discovered, batches, children, waitIdx, runs, observers, others>>

\* a wait that a pause ends for the partition discovery instead of the
\* signal flush
WaitForNewRowsDiscoveringAfterPause ==
    /\ pc = "waiting"
    /\ \/ /\ signalChan # << >>
          /\ LET folded == FlowSignalHandler(activeSignal, Head(signalChan))
             IN  /\ activeSignal' = folded
                 /\ signalChan' = Tail(signalChan)
                 /\ IF cancelled
                    THEN ReturnError("ctx")
                    ELSE IF folded = "PauseSignal"
                    THEN pc' = "getPartitions" /\ UNCHANGED err
                    ELSE UNCHANGED <<pc, err>>
          /\ UNCHANGED <<state, newRows>>
       \/ /\ waitChild \in {"ok", "failed"}
          /\ newRows' = TRUE
          /\ IF cancelled THEN ReturnError("ctx")
             ELSE IF waitChild = "failed" THEN ReturnError("waitForNewRows")
             ELSE pc' = "getPartitions" /\ UNCHANGED err
          /\ UNCHANGED <<state, activeSignal, signalChan>>
       \/ /\ cancelled
          /\ ReturnError("ctx")
          /\ UNCHANGED <<state, activeSignal, signalChan, newRows>>
    /\ UNCHANGED <<config, entryState, cancelled, fullRefresh, lastPartition,
                   waitChild, getLast, partitions, discovered, batches, children,
                   waitIdx, calls, runs, observers, others>>

\* a wait that goes on to the discovery though its child returned an error
WaitForNewRowsIgnoringError ==
    /\ pc = "waiting"
    /\ \/ /\ signalChan # << >>
          /\ LET folded == FlowSignalHandler(activeSignal, Head(signalChan))
             IN  IF cancelled
                 THEN /\ ReturnError("ctx")
                      /\ activeSignal' = folded
                      /\ signalChan' = Tail(signalChan)
                      /\ UNCHANGED <<state, catalog>>
                 ELSE IF folded = "PauseSignal"
                 THEN /\ FlushAndContinue(state, folded, Tail(signalChan))
                      /\ UNCHANGED err
                 ELSE /\ activeSignal' = folded
                      /\ signalChan' = Tail(signalChan)
                      /\ UNCHANGED <<state, pc, err, catalog>>
          /\ UNCHANGED newRows
       \/ /\ waitChild \in {"ok", "failed"}
          /\ newRows' = TRUE
          /\ IF cancelled THEN ReturnError("ctx")
             ELSE pc' = "getPartitions" /\ UNCHANGED err
          /\ UNCHANGED <<state, activeSignal, signalChan, catalog>>
       \/ /\ cancelled
          /\ ReturnError("ctx")
          /\ UNCHANGED <<state, activeSignal, signalChan, catalog, newRows>>
    /\ UNCHANGED <<config, entryState, cancelled, fullRefresh, lastPartition,
                   waitChild, getLast, partitions, discovered, batches, children,
                   waitIdx, calls, runs, isRoot, queryHandlers, others>>

\* waitForNewRows: one Select of the WaitForRows selector and the loop test
\* that follows it
WaitForNewRows ==
    /\ pc = "waiting"
    /\ \/ \* the signal channel delivered a signal; a pause ends the wait
          \* and the cycle: discovery is skipped, the signals are flushed
          /\ signalChan # << >>
          /\ LET folded == FlowSignalHandler(activeSignal, Head(signalChan))
             IN  IF cancelled
                 THEN /\ ReturnError("ctx")
                      /\ activeSignal' = folded
                      /\ signalChan' = Tail(signalChan)
                      /\ UNCHANGED <<state, catalog>>
                 ELSE IF folded = "PauseSignal"
                 THEN /\ FlushAndContinue(state, folded, Tail(signalChan))
                      /\ UNCHANGED err
                 ELSE /\ activeSignal' = folded
                      /\ signalChan' = Tail(signalChan)
                      /\ UNCHANGED <<state, pc, err, catalog>>
          /\ UNCHANGED newRows
       \/ \* the child future is ready
          /\ waitChild \in {"ok", "failed"}
          /\ newRows' = TRUE
          /\ IF cancelled THEN ReturnError("ctx")
             ELSE IF waitChild = "failed" THEN ReturnError("waitForNewRows")
             ELSE pc' = "getPartitions" /\ UNCHANGED err
          /\ UNCHANGED <<state, activeSignal, signalChan, catalog>>
       \/ \* ctx.Done() is closed
          /\ cancelled
          /\ ReturnError("ctx")
          /\ UNCHANGED <<state, activeSignal, signalChan, catalog, newRows>>
    /\ UNCHANGED <<config, entryState, cancelled, fullRefresh, lastPartition,
                   waitChild, getLast, partitions, discovered, batches, children,
                   waitIdx, calls, runs, isRoot, queryHandlers, others>>

\* getPartitions: the GetQRepPartitions activity
GetPartitions ==
    /\ pc = "getPartitions"
    /\ getLast' = DiscoveryCursor
    /\ Called(<<"GetQRepPartitions">>)
    /\ \E r \in ActivityOutcomes :
          IF r = "ok"
          THEN \E n \in 0..MaxParts :
                  /\ partitions' = PartitionsAfter(getLast', n)
                  /\ discovered' = TRUE
                  /\ pc' = "process"
                  /\ UNCHANGED err
          ELSE /\ ReturnError("getPartitions")
               /\ UNCHANGED <<partitions, discovered>>
    /\ UNCHANGED <<config, state, entryState, activeSignal, env, fullRefresh,
                   lastPartition, waitChild, newRows, batches, children, waitIdx, runs, observers, others>>

\* a fan-out that starts one child with an empty batch for an empty list
ProcessPartitionsSpawningForEmpty ==
    /\ pc = "process"
    /\ batches' = IF Len(partitions) = 0
                  THEN << [BatchId |-> 1, Partitions |-> << >>] >>
                  ELSE Batches(partitions, EffectiveMaxParallelWorkers(config))
    /\ children' = [i \in 1..Len(batches') |-> "running"]
    /\ Called([i \in 1..Len(batches') |-> "QRepPartitionWorkflow"])
    /\ pc' = "fanout"
    /\ UNCHANGED <<config, state, entryState, err, activeSignal, env, fullRefresh,
                   lastPartition, waitChild, newRows, getLast, partitions,
                   discovered, waitIdx, runs, observers, others>>

\* processPartitions up to its first future.Get: no child for an empty list,
\* else one child workflow per batch
ProcessPartitions ==
    /\ pc = "process"
    /\ IF Len(partitions) = 0
       THEN /\ pc' = "consolidate"
            /\ UNCHANGED <<batches, children, calls>>
       ELSE /\ batches' = Batches(partitions, EffectiveMaxParallelWorkers(config))
            /\ children' = [i \in 1..Len(batches') |-> "running"]
            /\ Called([i \in 1..Len(batches') |-> "QRepPartitionWorkflow"])
            /\ pc' = "fanout"
    /\ UNCHANGED <<config, state, entryState, err, activeSignal, env, fullRefresh,
                   lastPartition, waitChild, newRows, getLast, partitions,
                   discovered, waitIdx, runs, observers, others>>

\* a wait that takes the next child future whatever its result
FutureGetIgnoringError ==
    /\ pc = "fanout"
    /\ waitIdx < Len(children)
    /\ children[waitIdx + 1] # "running"
    /\ waitIdx' = waitIdx + 1
    /\ pc' = IF waitIdx' = Len(children) THEN "consolidate" ELSE "fanout"
    /\ UNCHANGED <<config, state, entryState, err, activeSignal, env, fullRefresh,
                   lastPartition, waitChild, newRows, getLast, partitions,
                   discovered, batches, children, calls, runs, observers, others>>

\* a wait for the batch children that a pending pause ends at once
FutureGetInterruptedByPause ==
    /\ pc = "fanout"
    /\ IF signalChan # << >> /\ Head(signalChan) = "PauseSignal"
       THEN /\ FlushAndContinue(state, activeSignal, signalChan)
            /\ UNCHANGED <<err, waitIdx>>
       ELSE /\ waitIdx < Len(children)
            /\ children[waitIdx + 1] # "running"
            /\ IF children[waitIdx + 1] = "ok"
               THEN /\ waitIdx' = waitIdx + 1
                    /\ pc' = IF waitIdx' = Len(children) THEN "consolidate" ELSE "fanout"
                    /\ UNCHANGED err
               ELSE /\ ReturnError("child")
                    /\ UNCHANGED waitIdx
            /\ UNCHANGED <<state, activeSignal, signalChan, catalog>>
    /\ UNCHANGED <<config, entryState, cancelled, fullRefresh,
                   lastPartition, waitChild, newRows, getLast, partitions,
                   discovered, batches, children, calls, runs, isRoot, queryHandlers, others>>

\* processPartitions: future.Get of the next child future, in spawn order
FutureGet ==
    /\ pc = "fanout"
    /\ waitIdx < Len(children)
    /\ children[waitIdx + 1] # "running"
    /\ IF children[waitIdx + 1] = "ok"
       THEN /\ waitIdx' = waitIdx + 1
            /\ pc' = IF waitIdx' = Len(children) THEN "consolidate" ELSE "fanout"
            /\ UNCHANGED err
       ELSE /\ ReturnError("child")
            /\ UNCHANGED waitIdx
    /\ UNCHANGED <<config, state, entryState, activeSignal, env, fullRefresh,
                   lastPartition, waitChild, newRows, getLast, partitions,
                   discovered, batches, children, calls, runs, observers, others>>

\* consolidatePartitions: the ConsolidateQRepPartitions activity
ConsolidatePartitions ==
    /\ pc = "consolidate"
    /\ Called(<<"ConsolidateQRepPartitions">>)
    /\ \E r \in ActivityOutcomes :
          IF r = "ok" THEN pc' = "cleanup" /\ UNCHANGED err
          ELSE ReturnError("consolidate")
    /\ UNCHANGED <<config, state, entryState, activeSignal, env, locals, runs, observers, others>>

\* the end of a cycle whose work succeeded: NeedsResync is cleared, the state
\* is advanced, the signals are flushed and the run continues as new
FinishCycle ==
    FlushAndContinue(
        AdvanceState([state EXCEPT !.NeedsResync = FALSE], partitions, fullRefresh),
        activeSignal, signalChan)

\* a cycle end that does not set COMPLETED for an InitialCopyOnly flow
CleanupQRepFlowNeverCompleting ==
    /\ pc = "cleanup"
    /\ Called(<<"CleanupQRepFlow">>)
    /\ \E r \in ActivityOutcomes :
          IF r = "error"
          THEN /\ ReturnError("cleanup")
               /\ UNCHANGED <<state, activeSignal, signalChan, catalog>>
          ELSE IF state.NeedsResync /\ config.DstTableFullResync
          THEN /\ pc' = "rename"
               /\ UNCHANGED <<err, state, activeSignal, signalChan, catalog>>
          ELSE /\ FinishCycle
               /\ UNCHANGED err
    /\ UNCHANGED <<config, entryState, cancelled, locals, runs, isRoot, queryHandlers, others>>

\* consolidatePartitions: the CleanupQRepFlow activity, and the code that
\* follows it up to the next suspension point
CleanupQRepFlow ==
    /\ pc = "cleanup"
    /\ Called(<<"CleanupQRepFlow">>)
    /\ \E r \in ActivityOutcomes :
          IF r = "error"
          THEN /\ ReturnError("cleanup")
               /\ UNCHANGED <<state, activeSignal, signalChan, catalog>>
          ELSE IF config.InitialCopyOnly
          THEN /\ state' = [state EXCEPT !.CurrentFlowStatus = "STATUS_COMPLETED"]
               /\ Synced(<<"STATUS_COMPLETED">>)
               /\ pc' = "continued"
               /\ UNCHANGED <<err, activeSignal, signalChan>>
          ELSE IF state.NeedsResync /\ config.DstTableFullResync
          THEN /\ pc' = "rename"
               /\ UNCHANGED <<err, state, activeSignal, signalChan, catalog>>
          ELSE /\ FinishCycle
               /\ UNCHANGED err
    /\ UNCHANGED <<config, entryState, cancelled, locals, runs, isRoot, queryHandlers, others>>

\* strings.TrimSuffix(DestinationTableIdentifier, "_peerdb_resync")
TrimResyncSuffix(n) == IF n > 0 THEN n - 1 ELSE 0

\* a rename step that has advanced the state before RenameTables fails
HandleTableRenameAdvancingFirst ==
    /\ pc = "rename"
    /\ \E r \in ActivityOutcomes :
          IF r = "error"
          THEN /\ ReturnError("rename")
               /\ \/ Called(<<"SetupTableSchema">>)
                  \/ Called(<<"SetupTableSchema", "RenameTables">>)
               /\ state' = AdvanceState(state, partitions, fullRefresh)
               /\ UNCHANGED <<config, activeSignal, signalChan, catalog>>
          ELSE /\ Called(<<"SetupTableSchema", "RenameTables">>)
               /\ config' = [config EXCEPT !.ResyncSuffixes = TrimResyncSuffix(@)]
               /\ FinishCycle
               /\ UNCHANGED err
    /\ UNCHANGED <<entryState, cancelled, locals, runs, isRoot, queryHandlers, others>>

\* handleTableRenameForResync when a resync is due: SetupTableSchema and
\* RenameTables of the shadow table, then the rest of the cycle
HandleTableRenameForResync ==
    /\ pc = "rename"
    /\ \E r \in ActivityOutcomes :
          IF r = "error"
          THEN /\ ReturnError("rename")
               /\ \/ Called(<<"SetupTableSchema">>)
                  \/ Called(<<"SetupTableSchema", "RenameTables">>)
               /\ UNCHANGED <<config, state, activeSignal, signalChan, catalog>>
          ELSE /\ Called(<<"SetupTableSchema", "RenameTables">>)
               /\ config' = [config EXCEPT !.ResyncSuffixes = TrimResyncSuffix(@)]
               /\ FinishCycle
               /\ UNCHANGED err
    /\ UNCHANGED <<entryState, cancelled, locals, runs, isRoot, queryHandlers, others>>

\* continue-as-new: the next run of QRepFlowWorkflow(ctx, config, state)
ContinueAsNew ==
    /\ pc = "continued"
    /\ runs < MaxRuns
    /\ runs' = runs + 1
    /\ pc' = "start"
    /\ entryState' = state
    /\ cancelled' = FALSE
    /\ ResetLocals
    /\ queryHandlers' = FALSE
    /\ catalog' = << >>
    /\ UNCHANGED <<config, state, err, activeSignal, signalChan, isRoot, others>>

\* ------------------------------------------------------------ environment
\* the QRepWaitForNewRowsWorkflow child completes, with or without an error
WaitChildSettles ==
    /\ pc = "waiting"
    /\ waitChild = "running"
    /\ \E r \in {"ok", "failed"} : waitChild' = r
    /\ UNCHANGED <<config, state, entryState, pc, err, activeSignal, env, fullRefresh,
                   lastPartition, newRows, getLast, partitions, discovered, batches,
                   children, waitIdx, calls, runs, observers, others>>

\* a QRepPartitionWorkflow child settles while its parent waits in
\* processPartitions: it completes, or its future yields an error (its
\* retries are used up, or it was cancelled with its parent)
ChildSettles ==
    /\ pc = "fanout"
    /\ \E i \in 1..Len(children) :
          /\ children[i] = "running"
          /\ \E r \in {"ok", "failed"} : children' = [children EXCEPT ![i] = r]
    /\ UNCHANGED <<config, state, entryState, pc, err, activeSignal, env, fullRefresh,
                   lastPartition, waitChild, newRows, getLast, partitions, discovered,
                   batches, waitIdx, calls, runs, observers, others>>

\* a client sends a signal on the flow-signal channel
SendSignal ==
    /\ pc \notin {"failed", "returned"}
    /\ Len(signalChan) < MaxSignals
    /\ \E s \in ClientSignals : signalChan' = Append(signalChan, s)
    /\ UNCHANGED <<config, state, entryState, pc, err, activeSignal, cancelled,
                   locals, calls, runs, observers, others>>

\* a client queries "qrep-flow-state" or "flow-status": the handlers read
\* the state and assign nothing
QueryHandler ==
    /\ queryHandlers
    /\ UNCHANGED vars

\* the workflow context is cancelled
Cancel ==
    /\ pc \notin {"failed", "returned", "continued"}
    /\ ~cancelled
    /\ cancelled' = TRUE
    /\ UNCHANGED <<config, state, entryState, pc, err, activeSignal, signalChan,
                   locals, calls, runs, observers, others>>

Next ==
    \/ Enter
    \/ PauseGateReceive
    \/ PauseGateTimeout
    \/ PauseGateCancelled
    \/ SetupWatermarkTableOnDestination
    \/ SetupMetadataTables
    \/ HandleTableCreationForResync
    \/ CursorSelection
    \/ WaitForNewRows
    \/ GetPartitions
    \/ ProcessPartitions
    \/ FutureGet
    \/ ConsolidatePartitions
    \/ CleanupQRepFlow
    \/ HandleTableRenameForResync
    \/ ContinueAsNew
    \/ WaitChildSettles
    \/ ChildSettles
    \/ QueryHandler
    \/ SendSignal
    \/ Cancel

Spec == Init /\ [][Next]_vars

\* ------------------------------------------------------------ processPartitions alone
\* The run stands before processPartitions with a partition list of up to
\* MaxBatchParts partitions, in the first run of an InitialCopyOnly flow.
InitFanOut ==
    /\ config \in [InitialCopyOnly : {TRUE},
                   DstTableFullResync : {FALSE},
                   Overwrite : {FALSE},
                   MaxParallelWorkers : 0..MaxBatchWorkers,
                   ResyncSuffixes : {0}]
    /\ state = newQRepFlowState
    /\ entryState = newQRepFlowState
    /\ pc = "process"
    /\ err = "none"
    /\ activeSignal = "NoopSignal"
    /\ signalChan = << >>
    /\ cancelled = FALSE
    /\ fullRefresh = FALSE
    /\ lastPartition = InitialLastPartition
    /\ waitChild = "none"
    /\ newRows = FALSE
    /\ getLast = InitialLastPartition
    /\ \E n \in 0..MaxBatchParts : partitions = PartitionsAfter(InitialLastPartition, n)
    /\ discovered = TRUE
    /\ batches = << >>
    /\ children = << >>
    /\ waitIdx = 0
    /\ calls = << [op |-> "SetupQRepMetadataTables", dest |-> 0],
                  [op |-> "GetQRepPartitions", dest |-> 0] >>
    /\ runs = 0
    /\ isRoot = TRUE
    /\ queryHandlers = TRUE
    /\ catalog = << >>
    /\ IdleWait /\ IdleSnapshot /\ IdleLookup /\ IdleStage

NextFanOut ==
    \/ ProcessPartitions
    \/ ChildSettles
    \/ FutureGet

SpecFanOut == InitFanOut /\ [][NextFanOut]_vars

\* ------------------------------------------------------------ the pause gate alone
\* A client starts QRepFlowWorkflow with a state whose status is PAUSING or
\* PAUSED; the run is followed until it has left the pause gate.
InitPauseGate ==
    /\ config \in Configs
    /\ \E status \in {"STATUS_PAUSING", "STATUS_PAUSED"} :
          state = [newQRepFlowState EXCEPT !.CurrentFlowStatus = status]
    /\ entryState = state
    /\ pc = "start"
    /\ err = "none"
    /\ activeSignal = "NoopSignal"
    /\ signalChan = << >>
    /\ cancelled = FALSE
    /\ NoLocals
    /\ runs = 0
    /\ isRoot = TRUE
    /\ queryHandlers = FALSE
    /\ catalog = << >>
    /\ IdleWait /\ IdleSnapshot /\ IdleLookup /\ IdleStage

NextPauseGate ==
    \/ Enter
    \/ PauseGateReceive
    \/ PauseGateTimeout
    \/ PauseGateCancelled
    \/ SendSignal
    \/ Cancel

SpecPauseGate == InitPauseGate /\ [][NextPauseGate]_vars

\* ------------------------------------------------------------ the wait loop
\* 5 * time.Second, the sleep of a config without WaitBetweenBatchesSeconds
DefaultWaitBetweenBatchesSeconds == 5

WaitConfigs ==
    [Overwrite : BOOLEAN,
     WaitBetweenBatchesSeconds : 0..MaxWaitSeconds]

\* local waitBetweenBatches, in seconds
WaitBetweenBatches(cfg) ==
    IF cfg.WaitBetweenBatchesSeconds > 0
    THEN cfg.WaitBetweenBatchesSeconds
    ELSE DefaultWaitBetweenBatchesSeconds

\* QRepWaitForNewRowsWorkflow(ctx, config, lastPartition), started by
\* waitForNewRows with the cursor of its cycle
InitWaitLoop ==
    /\ waitPc = "start"
    /\ waitConfig \in WaitConfigs
    /\ waitLastPartition \in 1..MaxParts
    /\ hasNewRows = FALSE
    /\ waitFullRefresh = FALSE
    /\ slept = 0
    /\ waitCancelled = FALSE
    /\ continuedWith = "none"
    /\ waitRuns = 0
    /\ IdleQRep /\ IdleSnapshot /\ IdleLookup /\ IdleStage

\* the QRepHasNewRows activity and the code up to workflow.Sleep;
\* getQRepOverwriteFullRefreshMode is an input of the step
HasNewRows ==
    /\ waitPc = "start"
    /\ \E r \in IF waitCancelled THEN {"error"} ELSE {"ok", "error"} :
          IF r = "error"
          THEN /\ waitPc' = "failed"
               /\ UNCHANGED <<hasNewRows, waitFullRefresh, slept>>
          ELSE \E rows \in BOOLEAN, oracle \in BOOLEAN :
                  /\ hasNewRows' = rows
                  /\ waitFullRefresh' = (waitConfig.Overwrite /\ oracle)
                  /\ IF ~hasNewRows' \/ waitFullRefresh'
                     THEN /\ slept' = WaitBetweenBatches(waitConfig)
                          /\ waitPc' = "sleeping"
                     ELSE /\ waitPc' = "returned"
                          /\ UNCHANGED slept
    /\ UNCHANGED <<waitConfig, waitLastPartition, waitCancelled, continuedWith,
                   waitRuns, qrepVars, snapVars, lookupVars, stageVars>>

\* a wake-up that returns success whatever the mode
SleepReturnsAlwaysSuccess ==
    /\ waitPc = "sleeping"
    /\ waitPc' = IF waitCancelled THEN "failed" ELSE "returned"
    /\ UNCHANGED <<waitConfig, waitLastPartition, hasNewRows, waitFullRefresh,
                   slept, waitCancelled, continuedWith, waitRuns,
                   qrepVars, snapVars, lookupVars, stageVars>>

\* workflow.Sleep returns, with the CanceledError of a cancelled context or
\* after waitBetweenBatches, and the code that follows it
SleepReturns ==
    /\ waitPc = "sleeping"
    /\ IF waitCancelled
       THEN /\ waitPc' = "failed"
            /\ UNCHANGED continuedWith
       ELSE IF waitFullRefresh
       THEN /\ waitPc' = "returned"
            /\ UNCHANGED continuedWith
       ELSE /\ waitPc' = "continued"
            /\ continuedWith' = [config |-> waitConfig,
                                 lastPartition |-> waitLastPartition]
    /\ UNCHANGED <<waitConfig, waitLastPartition, hasNewRows, waitFullRefresh,
                   slept, waitCancelled, waitRuns, qrepVars, snapVars, lookupVars, stageVars>>

\* continue-as-new: the next run of QRepWaitForNewRowsWorkflow
WaitLoopContinueAsNew ==
    /\ waitPc = "continued"
    /\ waitRuns < MaxWaitRuns
    /\ waitRuns' = waitRuns + 1
    /\ waitPc' = "start"
    /\ waitConfig' = continuedWith.config
    /\ waitLastPartition' = continuedWith.lastPartition
    /\ hasNewRows' = FALSE
    /\ waitFullRefresh' = FALSE
    /\ slept' = 0
    /\ waitCancelled' = FALSE
    /\ continuedWith' = "none"
    /\ UNCHANGED <<qrepVars, snapVars, lookupVars, stageVars>>

\* the parent requests the cancellation of the wait loop
WaitLoopCancel ==
    /\ waitPc \in {"start", "sleeping"}
    /\ ~waitCancelled
    /\ waitCancelled' = TRUE
    /\ UNCHANGED <<waitPc, waitConfig, waitLastPartition, hasNewRows,
                   waitFullRefresh, slept, continuedWith, waitRuns,
                   qrepVars, snapVars, lookupVars, stageVars>>

NextWaitLoop ==
    \/ HasNewRows
    \/ SleepReturns
    \/ WaitLoopContinueAsNew
    \/ WaitLoopCancel

SpecWaitLoop == InitWaitLoop /\ [][NextWaitLoop]_vars

\* ------------------------------------------------------------ the snapshot flow
\* the snapshot names a source hands out
SnapshotNames == {"snap1", "snap2"}

Max(a, b) == IF a > b THEN a ELSE b

\* TableMappings is modelled by its length: the tables are 1..NumTables
SnapshotConfigs ==
    [DoInitialSnapshot : BOOLEAN,
     InitialSnapshotOnly : BOOLEAN,
     SnapshotNumTablesInParallel : 0..MaxTablesInParallel,
     NumTables : 0..MaxTables]

\* a cap of one clone per table mapping
NumTablesInParallelOfTables(cfg) == Max(cfg.NumTables, 1)

\* numTablesInParallel := int(max(config.SnapshotNumTablesInParallel, 1))
NumTablesInParallel(cfg) == Max(cfg.SnapshotNumTablesInParallel, 1)

\* the clone children that are in flight
InFlight(cs) == {i \in 1..Len(cs) : cs[i].status = "running"}

\* shared.BoundSelector.SpawnChild goes on to start the child only when
\* fewer than `limit` of the children it started are in flight
CanSpawn(cs, limit) == Cardinality(InFlight(cs)) < limit

\* shared.BoundSelector.Wait returns when every child it started has completed
AllCompleted(cs) == InFlight(cs) = {}

\* shared.BoundSelector.Wait returns an error when a child returned one
WaitError(cs) == \E i \in 1..Len(cs) : cs[i].status = "failed"

\* SnapshotFlowWorkflow(ctx, config)
InitSnapshot ==
    /\ snapPc = "start"
    /\ snapConfig \in SnapshotConfigs
    /\ snapErr = "none"
    /\ snapCancelled = FALSE
    /\ slotInfo = NoSlotInfo
    /\ txnSnapshotState = NoTxSnapshotState
    /\ fMaintain = "none"
    /\ fExportSnapshot = "none"
    /\ cloneArgs = NoCloneArgs
    /\ tableIdx = 0
    /\ clones = << >>
    /\ closeSlotCalls = << >>
    /\ txLostInFlight = FALSE
    /\ IdleQRep /\ IdleWait /\ IdleLookup /\ IdleStage

\* return fmt.Errorf(...)
SnapshotReturnError(e) ==
    /\ snapPc' = "failed"
    /\ snapErr' = e

\* an activity on ctx or sessionCtx yields a CanceledError once the context
\* is cancelled
SnapshotActivityOutcomes == IF snapCancelled THEN {"error"} ELSE {"ok", "error"}

\* workflow.CreateSession, and the choice of the mode; in TX mode MaintainTx
\* and WaitForExportSnapshot are started up to the Select
CreateSession ==
    /\ snapPc = "start"
    /\ \E r \in SnapshotActivityOutcomes :
          IF r = "error"
          THEN /\ SnapshotReturnError("createSession")
               /\ UNCHANGED <<fMaintain, fExportSnapshot>>
          ELSE IF ~snapConfig.DoInitialSnapshot
          THEN /\ snapPc' = "setupOnly"
               /\ UNCHANGED <<snapErr, fMaintain, fExportSnapshot>>
          ELSE IF snapConfig.InitialSnapshotOnly
          THEN /\ fMaintain' = "running"
               /\ fExportSnapshot' = "running"
               /\ snapPc' = "select"
               /\ UNCHANGED snapErr
          ELSE /\ snapPc' = "setupSlot"
               /\ UNCHANGED <<snapErr, fMaintain, fExportSnapshot>>
    /\ UNCHANGED <<snapConfig, snapCancelled, slotInfo, txnSnapshotState,
                   cloneArgs, tableIdx, clones, closeSlotCalls, txLostInFlight,
                   qrepVars, waitVars, lookupVars, stageVars>>

\* without DoInitialSnapshot: se.setupReplication(sessionCtx)
SetupReplicationOnly ==
    /\ snapPc = "setupOnly"
    /\ \E r \in SnapshotActivityOutcomes :
          IF r = "error"
          THEN /\ SnapshotReturnError("setupReplication")
               /\ UNCHANGED slotInfo
          ELSE /\ \E name \in SnapshotNames :
                     slotInfo' = [SlotName |-> "slot", SnapshotName |-> name]
               /\ snapPc' = "closeOnly"
               /\ UNCHANGED snapErr
    /\ UNCHANGED <<snapConfig, snapCancelled, txnSnapshotState, fMaintain,
                   fExportSnapshot, cloneArgs, tableIdx, clones, closeSlotCalls,
                   txLostInFlight, qrepVars, waitVars, lookupVars, stageVars>>

\* without DoInitialSnapshot: se.closeSlotKeepAlive(sessionCtx); on a
\* cancelled context the activity is not started
CloseSlotKeepAliveOnly ==
    /\ snapPc = "closeOnly"
    /\ IF snapCancelled
       THEN /\ SnapshotReturnError("closeSlotKeepAlive")
            /\ UNCHANGED closeSlotCalls
       ELSE /\ closeSlotCalls' = Append(closeSlotCalls,
                                        [at |-> snapPc, inFlight |-> InFlight(clones)])
            /\ \E r \in {"ok", "error"} :
                  IF r = "error"
                  THEN SnapshotReturnError("closeSlotKeepAlive")
                  ELSE snapPc' = "returned" /\ UNCHANGED snapErr
    /\ UNCHANGED <<snapConfig, snapCancelled, slotInfo, txnSnapshotState,
                   fMaintain, fExportSnapshot, cloneArgs, tableIdx, clones,
                   txLostInFlight, qrepVars, waitVars, lookupVars, stageVars>>

\* cloneTablesWithSlot up to the loop of cloneTables: se.setupReplication
\* and the call of cloneTables with the slot and the snapshot it returned
CloneTablesWithSlot ==
    /\ snapPc = "setupSlot"
    /\ \E r \in SnapshotActivityOutcomes :
          IF r = "error"
          THEN /\ SnapshotReturnError("setupReplication")
               /\ UNCHANGED <<slotInfo, cloneArgs>>
          ELSE /\ \E name \in SnapshotNames :
                     slotInfo' = [SlotName |-> "slot", SnapshotName |-> name]
               /\ cloneArgs' = [snapshotType |-> "SNAPSHOT_TYPE_SLOT",
                                slotName |-> slotInfo'.SlotName,
                                snapshotName |-> slotInfo'.SnapshotName,
                                maxParallelClones |-> NumTablesInParallel(snapConfig)]
               /\ snapPc' = "cloning"
               /\ UNCHANGED snapErr
    /\ UNCHANGED <<snapConfig, snapCancelled, txnSnapshotState, fMaintain,
                   fExportSnapshot, tableIdx, clones, closeSlotCalls,
                   txLostInFlight, qrepVars, waitVars, lookupVars, stageVars>>

\* a Select that goes on to the clones though MaintainTx has ended
ExportSnapshotSelectIgnoringMaintain ==
    /\ snapPc = "select"
    /\ \/ /\ fExportSnapshot = "failed"
          /\ SnapshotReturnError("exportSnapshot")
          /\ UNCHANGED cloneArgs
       \/ /\ fExportSnapshot = "ok" \/ fMaintain \in {"ok", "failed"}
          /\ cloneArgs' = [snapshotType |-> "SNAPSHOT_TYPE_TX",
                           slotName |-> "",
                           snapshotName |-> IF fExportSnapshot = "ok"
                                            THEN txnSnapshotState.SnapshotName
                                            ELSE "",
                           maxParallelClones |-> NumTablesInParallel(snapConfig)]
          /\ snapPc' = "cloning"
          /\ UNCHANGED snapErr
       \/ /\ snapCancelled
          /\ SnapshotReturnError("ctx")
          /\ UNCHANGED cloneArgs
    /\ UNCHANGED <<snapConfig, snapCancelled, slotInfo, txnSnapshotState,
                   fMaintain, fExportSnapshot, tableIdx, clones, closeSlotCalls,
                   txLostInFlight, qrepVars, waitVars, lookupVars, stageVars>>

\* TX mode: sessionSelector.Select takes one branch that is ready, and the
\* code that follows it up to the loop of cloneTables
ExportSnapshotSelect ==
    /\ snapPc = "select"
    /\ \/ \* fMaintain is ready: its error is returned; had it ended without
          \* one, txnSnapshotState is nil where its SnapshotName is read
          /\ fMaintain \in {"ok", "failed"}
          /\ IF fMaintain = "failed"
             THEN SnapshotReturnError("maintainTx")
             ELSE snapPc' = "panicked" /\ UNCHANGED snapErr
          /\ UNCHANGED cloneArgs
       \/ \* fExportSnapshot is ready
          /\ fExportSnapshot \in {"ok", "failed"}
          /\ IF fExportSnapshot = "failed"
             THEN /\ SnapshotReturnError("exportSnapshot")
                  /\ UNCHANGED cloneArgs
             ELSE /\ cloneArgs' = [snapshotType |-> "SNAPSHOT_TYPE_TX",
                                   slotName |-> "",
                                   snapshotName |-> txnSnapshotState.SnapshotName,
                                   maxParallelClones |-> NumTablesInParallel(snapConfig)]
                  /\ snapPc' = "cloning"
                  /\ UNCHANGED snapErr
       \/ \* ctx.Done() is closed
          /\ snapCancelled
          /\ SnapshotReturnError("ctx")
          /\ UNCHANGED cloneArgs
    /\ UNCHANGED <<snapConfig, snapCancelled, slotInfo, txnSnapshotState,
                   fMaintain, fExportSnapshot, tableIdx, clones, closeSlotCalls,
                   txLostInFlight, qrepVars, waitVars, lookupVars, stageVars>>

\* cloneTables, one round of its loop: cloneTable of the next table mapping
CloneTable ==
    /\ snapPc = "cloning"
    /\ tableIdx < snapConfig.NumTables
    /\ tableIdx' = tableIdx + 1
    /\ \/ \* cloneTable returned an error before SpawnChild (ParseSchemaTable,
          \* getPeerType, LoadTableSchema): the table is left out
          UNCHANGED clones
       \/ \* boundSelector.SpawnChild; on a cancelled context the child
          \* future fails without a child in flight
          /\ CanSpawn(clones, cloneArgs.maxParallelClones)
          /\ clones' = Append(clones,
                              [table |-> tableIdx + 1,
                               snapshotName |-> cloneArgs.snapshotName,
                               status |-> IF snapCancelled THEN "failed"
                                          ELSE "running"])
    /\ UNCHANGED <<snapPc, snapConfig, snapErr, snapCancelled, slotInfo,
                   txnSnapshotState, fMaintain, fExportSnapshot, cloneArgs,
                   closeSlotCalls, txLostInFlight, qrepVars, waitVars, lookupVars, stageVars>>

\* cloneTables after its loop: boundSelector.Wait, and the return of
\* cloneTables; in TX mode that of SnapshotFlowWorkflow too
BoundSelectorWait ==
    /\ snapPc = "cloning"
    /\ tableIdx = snapConfig.NumTables
    /\ AllCompleted(clones)
    /\ snapErr' = IF WaitError(clones) THEN "cloneTables" ELSE "none"
    /\ snapPc' = IF cloneArgs.snapshotType = "SNAPSHOT_TYPE_SLOT" THEN "closeSlot"
                 ELSE IF WaitError(clones) THEN "failed"
                 ELSE "returned"
    /\ UNCHANGED <<snapConfig, snapCancelled, slotInfo, txnSnapshotState,
                   fMaintain, fExportSnapshot, cloneArgs, tableIdx, clones,
                   closeSlotCalls, txLostInFlight, qrepVars, waitVars, lookupVars, stageVars>>

\* a deferred close that runs on the context of the workflow
DeferredCloseOnWorkflowContext ==
    /\ snapPc = "closeSlot"
    /\ closeSlotCalls' = IF snapCancelled THEN closeSlotCalls
                         ELSE Append(closeSlotCalls,
                                     [at |-> snapPc, inFlight |-> InFlight(clones)])
    /\ snapPc' = IF snapErr = "none" THEN "returned" ELSE "failed"
    /\ UNCHANGED <<snapConfig, snapErr, snapCancelled, slotInfo,
                   txnSnapshotState, fMaintain, fExportSnapshot, cloneArgs,
                   tableIdx, clones, txLostInFlight, qrepVars, waitVars, lookupVars, stageVars>>

\* cloneTablesWithSlot, its deferred function: closeSlotKeepAlive on a
\* context disconnected from the cancellation; its error is logged only
DeferredCloseSlotKeepAlive ==
    /\ snapPc = "closeSlot"
    /\ closeSlotCalls' = Append(closeSlotCalls,
                                [at |-> snapPc, inFlight |-> InFlight(clones)])
    /\ snapPc' = IF snapErr = "none" THEN "returned" ELSE "failed"
    /\ UNCHANGED <<snapConfig, snapErr, snapCancelled, slotInfo,
                   txnSnapshotState, fMaintain, fExportSnapshot, cloneArgs,
                   tableIdx, clones, txLostInFlight, qrepVars, waitVars, lookupVars, stageVars>>

\* the MaintainTx activity ends, and with it the transaction that holds the
\* exported snapshot
MaintainTxSettles ==
    /\ snapPc \in {"select", "cloning"}
    /\ fMaintain = "running"
    /\ \E r \in {"ok", "failed"} : fMaintain' = r
    /\ txLostInFlight' = (txLostInFlight \/ InFlight(clones) # {})
    /\ UNCHANGED <<snapPc, snapConfig, snapErr, snapCancelled, slotInfo,
                   txnSnapshotState, fExportSnapshot, cloneArgs, tableIdx, clones,
                   closeSlotCalls, qrepVars, waitVars, lookupVars, stageVars>>

\* the WaitForExportSnapshot activity ends
ExportSnapshotSettles ==
    /\ snapPc = "select"
    /\ fExportSnapshot = "running"
    /\ \/ /\ ~snapCancelled
          /\ fExportSnapshot' = "ok"
          /\ \E name \in SnapshotNames :
                txnSnapshotState' = [SnapshotName |-> name]
       \/ /\ fExportSnapshot' = "failed"
          /\ UNCHANGED txnSnapshotState
    /\ UNCHANGED <<snapPc, snapConfig, snapErr, snapCancelled, slotInfo,
                   fMaintain, cloneArgs, tableIdx, clones, closeSlotCalls,
                   txLostInFlight, qrepVars, waitVars, lookupVars, stageVars>>

\* a clone child (QRepFlowWorkflow with InitialCopyOnly) completes, with or
\* without an error
CloneSettles ==
    /\ snapPc = "cloning"
    /\ \E i \in InFlight(clones) :
          \E r \in {"ok", "failed"} : clones' = [clones EXCEPT ![i].status = r]
    /\ UNCHANGED <<snapPc, snapConfig, snapErr, snapCancelled, slotInfo,
                   txnSnapshotState, fMaintain, fExportSnapshot, cloneArgs,
                   tableIdx, closeSlotCalls, txLostInFlight, qrepVars, waitVars,
                   lookupVars, stageVars>>

\* the context of the snapshot flow is cancelled
SnapshotCancel ==
    /\ snapPc \notin {"idle", "returned", "failed", "panicked"}
    /\ ~snapCancelled
    /\ snapCancelled' = TRUE
    /\ UNCHANGED <<snapPc, snapConfig, snapErr, slotInfo, txnSnapshotState,
                   fMaintain, fExportSnapshot, cloneArgs, tableIdx, clones,
                   closeSlotCalls, txLostInFlight, qrepVars, waitVars, lookupVars, stageVars>>

NextSnapshot ==
    \/ CreateSession
    \/ SetupReplicationOnly
    \/ CloseSlotKeepAliveOnly
    \/ CloneTablesWithSlot
    \/ ExportSnapshotSelect
    \/ CloneTable
    \/ BoundSelectorWait
    \/ DeferredCloseSlotKeepAlive
    \/ MaintainTxSettles
    \/ ExportSnapshotSettles
    \/ CloneSettles
    \/ SnapshotCancel

SpecSnapshot == InitSnapshot /\ [][NextSnapshot]_vars

\* ------------------------------------------------------------ the setting lookup
\* a pgtype.Text that is NULL
NullText == [Valid |-> FALSE, String |-> ""]

\* the pgtype.Text of a column value
Text(str) == [Valid |-> TRUE, String |-> str]

\* what a lookup of a key meets: whether the catalog pool is there, what the
\* query for the row of the key yields (its row, pgx.ErrNoRows or another
\* error) with the config_value and config_default_value of the row, and
\* the (val, ok) of os.LookupEnv(key)
LookupInputs ==
    {in \in [pool : {"ok", "error"},
             query : {"row", "noRows", "error"},
             value : {NullText, Text("v1"), Text("v2")},
             default : {NullText, Text("d1"), Text("d2")},
             env : {[ok |-> FALSE, val |-> ""],
                    [ok |-> TRUE, val |-> "e1"],
                    [ok |-> TRUE, val |-> "e2"]}] :
        in.query # "row" => in.value = NullText /\ in.default = NullText}

\* dynLookup(ctx, key)
dynLookup(in) ==
    IF in.pool = "error" THEN [val |-> "", err |-> "failed to get catalog connection pool"]
    ELSE IF in.query # "row"
    THEN IF in.query = "noRows" /\ in.env.ok
         THEN [val |-> in.env.val, err |-> "none"]
         ELSE [val |-> "", err |-> "failed to get key"]
    ELSE IF ~in.value.Valid
    THEN IF in.env.ok
         THEN [val |-> in.env.val, err |-> "none"]
         ELSE [val |-> in.default.String, err |-> "none"]
    ELSE [val |-> in.value.String, err |-> "none"]

InitLookup ==
    /\ lookupInput \in LookupInputs
    /\ lookupResult = NoLookupResult
    /\ IdleQRep /\ IdleWait /\ IdleSnapshot /\ IdleStage

\* a caller looks the key up
DynLookup ==
    /\ lookupResult = NoLookupResult
    /\ lookupResult' = dynLookup(lookupInput)
    /\ UNCHANGED <<lookupInput, qrepVars, waitVars, snapVars, stageVars>>

NextLookup == DynLookup

SpecLookup == InitLookup /\ [][NextLookup]_vars

\* ------------------------------------- ClickHouseConnector.CleanupQRepFlow
\* strings are sequences of characters
S3Scheme == <<"s", "3", ":", "/", "/">>
Slash == <<"/">>

\* strings.HasPrefix
HasPrefix(str, pre) ==
    /\ Len(pre) <= Len(str)
    /\ SubSeq(str, 1, Len(pre)) = pre

\* strings.TrimPrefix
TrimPrefix(str, pre) ==
    IF HasPrefix(str, pre) THEN SubSeq(str, Len(pre) + 1, Len(str)) ELSE str

\* strings.Trim(str, "/")
RECURSIVE TrimSlashes(_)
TrimSlashes(str) ==
    IF str = << >> THEN str
    ELSE IF Head(str) = "/" THEN TrimSlashes(Tail(str))
    ELSE IF str[Len(str)] = "/" THEN TrimSlashes(SubSeq(str, 1, Len(str) - 1))
    ELSE str

\* the position of the first "/" of str, or Len(str) + 1
RECURSIVE FirstSlash(_)
FirstSlash(str) ==
    IF str = << >> \/ Head(str) = "/" THEN 1 ELSE 1 + FirstSlash(Tail(str))

\* utils.NewS3BucketAndPrefix: the bucket up to the first "/" after the
\* scheme, the prefix what follows it without leading and trailing "/"
NewS3BucketAndPrefix(path) ==
    LET rest == TrimPrefix(path, S3Scheme)
        cut == FirstSlash(rest)
    IN  [Bucket |-> SubSeq(rest, 1, cut - 1),
         Prefix |-> TrimSlashes(SubSeq(rest, cut + 1, Len(rest)))]

\* the staging paths followed: two spellings of s3://b/p, and a local path
StagingPaths ==
    { S3Scheme \o <<"b", "/", "p">>,
      S3Scheme \o <<"b", "/", "p", "/">>,
      <<"/", "b", "/", "p">> }

\* the flow jobs that stage in the bucket; the name of the second has the
\* name of the first as a proper prefix
FlowJobNames == { <<"a">>, <<"a", "2">>, <<"c">> }

\* the file names a job stages
StagedFiles == { <<"f">>, <<"g">> }

\* the objects flow job j stages: <prefix>/<j>/<file> in bucket b
StagedBy(j) ==
    { [Bucket |-> <<"b">>, Key |-> <<"p">> \o Slash \o j \o Slash \o f] :
        f \in StagedFiles }

StagedObjects == UNION { StagedBy(j) : j \in FlowJobNames }

\* the largest number of keys ListObjectsV2 returns in one page
MaxKeys == 2
\* the largest number of calls of CleanupQRepFlow followed
MaxCleanups == 2

\* dropStage: fmt.Sprintf("%s/%s", s3o.Prefix, job)
StagePrefix(s3o, j) == s3o.Prefix \o Slash \o j

\* ListObjectsV2: the objects of the bucket whose key starts with the prefix
ListObjectsV2(bucket, pre) ==
    { o \in objects : o.Bucket = bucket /\ HasPrefix(o.Key, pre) }

InitStage ==
    /\ stagePc = "start"
    /\ stagingPath \in StagingPaths
    /\ job \in FlowJobNames
    /\ stageErr = "none"
    /\ objects \in SUBSET StagedObjects
    /\ prefix = << >>
    /\ page = {}
    /\ hasMorePages = FALSE
    /\ deleted = {}
    /\ cleanups = 0
    /\ firstEnd = NoFirstEnd
    /\ IdleQRep /\ IdleWait /\ IdleSnapshot /\ IdleLookup

\* dropStage returns: nil or the error of the failing step
StageReturn(e) ==
    /\ stagePc' = IF e = "none" THEN "returned" ELSE "failed"
    /\ stageErr' = e
    /\ cleanups' = cleanups + 1
    /\ firstEnd' = IF e = "none" /\ ~firstEnd.done
                   THEN [done |-> TRUE, objects |-> objects]
                   ELSE firstEnd

\* dropStage up to the paginator: a path that is not s3:// returns nil
DropStage ==
    /\ stagePc = "start"
    /\ IF HasPrefix(stagingPath, S3Scheme)
       THEN \E r \in {"ok", "NewS3BucketAndPrefix", "CreateS3Client"} :
               IF r = "ok"
               THEN /\ prefix' = StagePrefix(NewS3BucketAndPrefix(stagingPath), job)
                    /\ hasMorePages' = TRUE
                    /\ stagePc' = "listing"
                    /\ UNCHANGED <<stageErr, cleanups, firstEnd>>
               ELSE /\ StageReturn(r)
                    /\ UNCHANGED <<prefix, hasMorePages>>
       ELSE /\ StageReturn("none")
            /\ UNCHANGED <<prefix, hasMorePages>>
    /\ UNCHANGED <<stagingPath, job, objects, page, deleted,
                   qrepVars, waitVars, snapVars, lookupVars>>

\* the loop over the pages: its test, and pages.NextPage
NextPage ==
    /\ stagePc = "listing"
    /\ IF hasMorePages
       THEN \E r \in {"ok", "ListObjectsV2"} :
               IF r = "ok"
               THEN LET found == ListObjectsV2(
                                    NewS3BucketAndPrefix(stagingPath).Bucket, prefix)
                    IN  /\ \E pg \in SUBSET found :
                              /\ Cardinality(pg) = Min(MaxKeys, Cardinality(found))
                              /\ page' = pg
                        /\ hasMorePages' = (Cardinality(found) > MaxKeys)
                        /\ stagePc' = "deleting"
                        /\ UNCHANGED <<stageErr, cleanups, firstEnd>>
               ELSE /\ StageReturn(r)
                    /\ UNCHANGED <<page, hasMorePages>>
       ELSE /\ StageReturn("none")
            /\ UNCHANGED <<page, hasMorePages>>
    /\ UNCHANGED <<stagingPath, job, objects, prefix, deleted,
                   qrepVars, waitVars, snapVars, lookupVars>>

\* the loop over page.Contents: DeleteObject of the next object, and the
\* end of the page
DeleteObject ==
    /\ stagePc = "deleting"
    /\ IF page = {}
       THEN /\ stagePc' = "listing"
            /\ UNCHANGED <<objects, page, deleted, stageErr, cleanups, firstEnd>>
       ELSE \E o \in page : \E r \in {"ok", "DeleteObject"} :
               IF r = "ok"
               THEN /\ objects' = objects \ {o}
                    /\ deleted' = deleted \cup {o}
                    /\ page' = page \ {o}
                    /\ UNCHANGED <<stagePc, stageErr, cleanups, firstEnd>>
               ELSE /\ StageReturn(r)
                    /\ UNCHANGED <<objects, page, deleted>>
    /\ UNCHANGED <<stagingPath, job, prefix, hasMorePages,
                   qrepVars, waitVars, snapVars, lookupVars>>

\* CleanupQRepFlow is called again with the same config
CleanupQRepFlowAgain ==
    /\ stagePc \in {"returned", "failed"}
    /\ cleanups < MaxCleanups
    /\ stagePc' = "start"
    /\ stageErr' = "none"
    /\ prefix' = << >>
    /\ page' = {}
    /\ hasMorePages' = FALSE
    /\ UNCHANGED <<stagingPath, job, objects, deleted, cleanups, firstEnd,
                   qrepVars, waitVars, snapVars, lookupVars>>

NextStage ==
    \/ DropStage
    \/ NextPage
    \/ DeleteObject
    \/ CleanupQRepFlowAgain

SpecStage == InitStage /\ [][NextStage]_vars

\* ------------------------------------------------------------ properties
\* the run has moved the cursor or the partition count of the state it was given
StateAdvanced ==
    \/ state.LastPartition # entryState.LastPartition
    \/ state.NumPartitionsProcessed # entryState.NumPartitionsProcessed

\* the partitions of the batches, in spawn order
RECURSIVE ConcatBatches(_)
ConcatBatches(bs) ==
    IF bs = << >> THEN << >>
    ELSE Head(bs).Partitions \o ConcatBatches(Tail(bs))

\* C1: the cursor and the partition count are changed only in a run whose
\* partition discovery returned and in which every batch child that
\* processPartitions started has completed without an error; a non-empty
\* partition list has had its children started.
C1_CursorMovesAfterAllChildren ==
    StateAdvanced =>
        /\ discovered
        /\ partitions # << >> => children # << >>
        /\ waitIdx = Len(children)
        /\ \A i \in 1..Len(children) : children[i] = "ok"

\* C1 witness: a run that moved the cursor after two batch children completed
C1_Witness ==
    /\ state.LastPartition # entryState.LastPartition
    /\ Len(children) >= 2

\* C2 as claimed: when processPartitions returns the error of a batch child,
\* every batch child started in the cycle has settled, and the error is the
\* one of the first failed child in spawn order.
C2_FailureAfterAllSettled ==
    (pc = "failed" /\ err = "child") =>
        /\ \A i \in 1..Len(children) : children[i] # "running"
        /\ \A i \in 1..waitIdx : children[i] = "ok"
        /\ children[waitIdx + 1] = "failed"

\* C3 as claimed: a non-empty list of n partitions is processed by exactly
\* ceil(n / M) children, M the effective maxParallelWorkers.
C3_CeilOfWorkersChildren ==
    pc = "fanout" =>
        LET n == Len(partitions)
            M == EffectiveMaxParallelWorkers(config)
            K == Len(batches)
        IN  K * M >= n /\ (K - 1) * M < n

\* C3 amended: the chunk size c is ceil(n / M), and the children are the
\* ceil(n / c) consecutive slices of c partitions, the last one shorter when c
\* does not divide n; 5 partitions with MaxParallelWorkers = 2 give the two
\* batches {1: [p1,p2,p3], 2: [p4,p5]}.
C3_ChunksOfCeilSize ==
    pc = "fanout" =>
        LET n == Len(partitions)
            M == IF config.MaxParallelWorkers > 0 THEN config.MaxParallelWorkers
                 ELSE 16
            K == Len(batches)
            c == CHOOSE x \in 1..n : x * M >= n /\ (x - 1) * M < n
        IN  /\ Len(children) = K
            /\ K * c >= n /\ (K - 1) * c < n
            /\ \A i \in 1..K :
                  batches[i].Partitions
                      = SubSeq(partitions, (i - 1) * c + 1, Min(i * c, n))
            /\ (n = 5 /\ M = 2) =>
                  batches = << [BatchId |-> 1, Partitions |-> SubSeq(partitions, 1, 3)],
                               [BatchId |-> 2, Partitions |-> SubSeq(partitions, 4, 5)] >>

\* C3 witness: the children of 5 partitions with MaxParallelWorkers = 2
C3_Witness ==
    /\ pc = "fanout"
    /\ Len(partitions) = 5
    /\ config.MaxParallelWorkers = 2
    /\ Len(children) = 2

\* C4: the batches of a non-empty partition list are non-empty, carry the
\* BatchIds 1..K in spawn order, and their partitions, concatenated in that
\* order, are the partition list.
C4_BatchesPartitionTheList ==
    pc = "fanout" =>
        /\ Len(batches) >= 1
        /\ \A i \in 1..Len(batches) :
              /\ batches[i].BatchId = i
              /\ batches[i].Partitions # << >>
        /\ ConcatBatches(batches) = partitions

\* C4 witness: several batches, the last one shorter than the first
C4_Witness ==
    /\ pc = "fanout"
    /\ Len(batches) >= 2
    /\ Len(batches[Len(batches)].Partitions) < Len(batches[1].Partitions)

\* C5: no more children are started than the effective maxParallelWorkers
\* (config.MaxParallelWorkers when positive, else 16); one worker gets one
\* batch with every partition; fewer partitions than workers get one batch
\* per partition.
C5_ChildrenWithinWorkers ==
    pc = "fanout" =>
        LET n == Len(partitions)
            M == IF config.MaxParallelWorkers > 0 THEN config.MaxParallelWorkers
                 ELSE 16
        IN  /\ Len(children) = Len(batches)
            /\ Len(children) <= M
            /\ M = 1 => batches = << [BatchId |-> 1, Partitions |-> partitions] >>
            /\ n < M =>
                  /\ Len(batches) = n
                  /\ \A i \in 1..n : batches[i].Partitions = << partitions[i] >>

\* C5 witness: one batch per partition under the default of 16 workers
C5_Witness ==
    /\ pc = "fanout"
    /\ config.MaxParallelWorkers = 0
    /\ Len(children) >= 3

\* C6 as claimed: every run that ends in a continue-as-new hands forward the
\* partition count of its entry plus the number of partitions discovered.
C6_CountAddedInEveryCycle ==
    pc = "continued" =>
        state.NumPartitionsProcessed
            = entryState.NumPartitionsProcessed + Len(partitions)

\* C6 amended: a run of a flow without InitialCopyOnly that ends in a
\* continue-as-new hands forward the partition count of its entry plus the
\* number of partitions discovered (none when a pause ended the wait), so the
\* count grows exactly when a partition was processed; a run of an
\* InitialCopyOnly flow hands the count forward unchanged; no run ever holds
\* a count below the one it was given.
C6_CountAddedOnceUnlessInitialCopy ==
    /\ state.NumPartitionsProcessed >= entryState.NumPartitionsProcessed
    /\ pc = "continued" =>
          /\ state.NumPartitionsProcessed
                = entryState.NumPartitionsProcessed
                  + (IF config.InitialCopyOnly THEN 0 ELSE Len(partitions))
          /\ (state.NumPartitionsProcessed > entryState.NumPartitionsProcessed)
                <=> (~config.InitialCopyOnly /\ Len(partitions) >= 1)

\* C6 witness: a second cycle that processed two partitions
C6_Witness ==
    /\ pc = "continued"
    /\ runs >= 1
    /\ Len(partitions) >= 2
    /\ state.NumPartitionsProcessed = entryState.NumPartitionsProcessed + 2
    /\ entryState.NumPartitionsProcessed > 0

\* C7 as claimed: after every cycle the cursor is the last partition
\* discovered, unless the list is empty (cursor unchanged) or fullRefresh is
\* set (cursor is the sentinel).
C7_CursorIsLastOrSentinel ==
    pc = "continued" =>
        state.LastPartition
            = IF fullRefresh THEN InitialLastPartition
              ELSE IF partitions = << >> THEN entryState.LastPartition
              ELSE partitions[Len(partitions)]

\* C7 amended: after a cycle of a flow without InitialCopyOnly the cursor is
\* the last partition discovered, unless the list is empty or fullRefresh is
\* set, and then it is the cursor of the cycle's entry (the sentinel only if
\* that was the sentinel); a cycle of an InitialCopyOnly flow leaves the
\* cursor unchanged.
C7_CursorIsLastOrUnchanged ==
    pc = "continued" =>
        state.LastPartition
            = IF config.InitialCopyOnly \/ fullRefresh \/ partitions = << >>
              THEN entryState.LastPartition
              ELSE partitions[Len(partitions)]

\* C7 witness: a full-refresh cycle that discovered partitions and left a
\* cursor of an earlier cycle in place
C7_Witness ==
    /\ pc = "continued"
    /\ fullRefresh
    /\ partitions # << >>
    /\ state.LastPartition # InitialLastPartition

\* C8 as claimed: in a cycle in OVERWRITE mode with full refresh reported,
\* the cursor handed to GetQRepPartitions is the sentinel.
C8_FullRefreshDiscoversFromSentinel ==
    (config.Overwrite /\ fullRefresh /\ getLast # -1) =>
        getLast = InitialLastPartition

\* C9: a run that returned an error holds the cursor and the partition count
\* it was started with.
C9_FailedRunKeepsCursor ==
    pc = "failed" =>
        /\ state.LastPartition = entryState.LastPartition
        /\ state.NumPartitionsProcessed = entryState.NumPartitionsProcessed

\* C9 witness: the rename of a resync cycle failed after partitions were
\* replicated and consolidated
C9_Witness ==
    /\ pc = "failed"
    /\ err = "rename"
    /\ partitions # << >>
    /\ \A i \in 1..Len(children) : children[i] = "ok"

\* C10 as claimed: a run that returned an error has set the status FAILED
\* and has not advanced the state.
C10_FailedRunSetsFailed ==
    pc = "failed" =>
        /\ state.CurrentFlowStatus = "STATUS_FAILED"
        /\ ~StateAdvanced

\* C10 amended: a run that returned an error has not advanced the state and
\* has not set the status FAILED: the status is the one the run had, RUNNING,
\* or PAUSED when the context was cancelled in the pause gate; no run ever
\* sets FAILED.
C10_FailedRunKeepsStatus ==
    /\ state.CurrentFlowStatus # "STATUS_FAILED"
    /\ pc = "failed" =>
          /\ ~StateAdvanced
          /\ state.CurrentFlowStatus
                = IF err = "pauseGate" THEN "STATUS_PAUSED" ELSE "STATUS_RUNNING"

\* C10 witness: a run entered paused, resumed, and failed in an activity
C10_Witness ==
    /\ pc = "failed"
    /\ entryState.CurrentFlowStatus = "STATUS_PAUSED"
    /\ err = "consolidate"

\* C11: a run entered with the status COMPLETED returns the state it was
\* given, without an error, and has started no activity and no child workflow,
\* received no signal and not continued as new; a run that has returned takes
\* no further step; the status COMPLETED, once set, is never changed.
C11_CompletedIsTerminal ==
    [][ /\ (pc = "start" /\ state.CurrentFlowStatus = "STATUS_COMPLETED" /\ pc' # pc) =>
              /\ pc' = "returned"
              /\ err' = "none"
              /\ state' = entryState
              /\ calls' = << >> /\ waitChild' = "none" /\ children' = << >>
              /\ signalChan' = signalChan /\ activeSignal' = activeSignal
              /\ runs' = runs
        /\ pc = "returned" => pc' = "returned"
        /\ state.CurrentFlowStatus = "STATUS_COMPLETED" =>
              state'.CurrentFlowStatus = "STATUS_COMPLETED"
      ]_vars

\* C11 witness: a run entered COMPLETED has returned, a signal still pending
C11_Witness ==
    /\ pc = "returned"
    /\ entryState.CurrentFlowStatus = "STATUS_COMPLETED"
    /\ signalChan # << >>

\* C12: a run of an InitialCopyOnly flow never waits for new rows, is never
\* paused and never renames; when its discovery, fan-out, consolidation and
\* cleanup have succeeded it continues as new with the state it was given, the
\* status set to COMPLETED; that happens in the first run only, and the run
\* that follows returns at once with that state, having started nothing; the
\* status COMPLETED is held only by InitialCopyOnly flows.
C12_InitialCopyCompletesOnce ==
    /\ state.CurrentFlowStatus = "STATUS_COMPLETED" => config.InitialCopyOnly
    /\ config.InitialCopyOnly =>
          /\ pc \notin {"paused", "waiting", "rename"}
          /\ pc = "continued" =>
                /\ runs = 0
                /\ discovered
                /\ waitIdx = Len(children)
                /\ \A i \in 1..Len(children) : children[i] = "ok"
                /\ calls[Len(calls)].op = "CleanupQRepFlow"
                /\ state = [entryState EXCEPT !.CurrentFlowStatus = "STATUS_COMPLETED"]
          /\ runs >= 1 =>
                /\ runs = 1
                /\ entryState.CurrentFlowStatus = "STATUS_COMPLETED"
                /\ pc \in {"start", "returned"}
                /\ state = entryState
                /\ calls = << >>

\* C12 witness: the second run of an InitialCopyOnly flow has returned
C12_Witness ==
    /\ config.InitialCopyOnly
    /\ runs = 1
    /\ pc = "returned"
    /\ state.CurrentFlowStatus = "STATUS_COMPLETED"

\* the indices of the calls of `op` this run has started
CallsOf(op) == {i \in 1..Len(calls) : calls[i].op = op}

\* the run was entered with a resync due
ResyncCycle == entryState.NeedsResync /\ config.DstTableFullResync

\* the run ends in a continue-as-new after its discovery, fan-out,
\* consolidation and cleanup succeeded
SuccessfulCycle == pc = "continued" /\ discovered

\* C13 as claimed: a successful cycle that was entered with a resync due hands
\* forward a state with NeedsResync cleared and a config whose destination
\* identifier is the original name.
C13_ResyncCycleRestoresName ==
    (SuccessfulCycle /\ ResyncCycle) =>
        /\ ~state.NeedsResync
        /\ config.ResyncSuffixes = 0

\* C14 as claimed: a successful cycle that was entered with a resync due,
\* InitialCopyOnly or not, has invoked RenameTables of the shadow table of the
\* original name before it hands its state forward.
C14_ResyncCycleRenames ==
    (SuccessfulCycle /\ ResyncCycle) =>
        \E i \in CallsOf("RenameTables") : calls[i].dest = 1

NothingStarted == calls = << >> /\ waitChild = "none" /\ children = << >>

\* C16: a run entered with the status PAUSING or PAUSED goes to the pause gate
\* with the status PAUSED and nothing started; while it stays in the gate the
\* state is unchanged and nothing is started; it leaves the gate for the cycle
\* only by receiving a signal that is not a pause, and then the status is
\* RUNNING and still nothing is started; the only other way out is the return
\* of the context error.
C16_PauseGateHoldsUntilResume ==
    [][ /\ (pc = "start" /\ pc' # pc
              /\ state.CurrentFlowStatus \in {"STATUS_PAUSING", "STATUS_PAUSED"}) =>
              /\ pc' = "paused"
              /\ state'.CurrentFlowStatus = "STATUS_PAUSED"
              /\ NothingStarted'
        /\ (pc = "paused" /\ pc' = "paused") =>
              /\ state' = state
              /\ activeSignal' = "PauseSignal"
              /\ NothingStarted'
        /\ (pc = "paused" /\ pc' # "paused") =>
              \/ /\ pc' = "setupWatermark"
                 /\ signalChan # << >>
                 /\ Head(signalChan) # "PauseSignal"
                 /\ signalChan' = Tail(signalChan)
                 /\ state' = [state EXCEPT !.CurrentFlowStatus = "STATUS_RUNNING"]
                 /\ NothingStarted'
              \/ /\ pc' = "failed"
                 /\ cancelled
      ]_vars

\* C16 witness: a run entered PAUSING has left the gate on a resume
C16_Witness ==
    /\ entryState.CurrentFlowStatus = "STATUS_PAUSING"
    /\ pc = "setupWatermark"
    /\ state.CurrentFlowStatus = "STATUS_RUNNING"

\* C20: a run that is blocked in the pause gate (no signal is pending) when
\* its context is cancelled can return, and its next step is the return of
\* the context error from the gate, with the state as it was and nothing
\* started; it does not wait for a resume.
C20_CancelledGateReturns ==
    /\ [](pc = "paused" /\ cancelled /\ signalChan = << >> => ENABLED PauseGateCancelled)
    /\ [][ (pc = "paused" /\ cancelled /\ signalChan = << >> /\ pc' # pc) =>
              /\ pc' = "failed"
              /\ err' = "pauseGate"
              /\ state' = state
              /\ activeSignal' = "PauseSignal"
              /\ NothingStarted'
          ]_vars

\* C20 witness: a run entered PAUSED returned the context error from the gate
C20_Witness ==
    /\ pc = "failed"
    /\ err = "pauseGate"
    /\ cancelled
    /\ entryState.CurrentFlowStatus = "STATUS_PAUSED"

\* the step receives the pause that heads the signal channel while the run
\* waits for new rows
PauseReceivedInWait ==
    /\ pc = "waiting"
    /\ signalChan # << >>
    /\ Head(signalChan) = "PauseSignal"
    /\ Len(signalChan') < Len(signalChan)

\* the step starts no discovery, no batch child and no consolidation and
\* leaves the cursor and the partition count as they are
NoDiscoveryInStep ==
    /\ calls' = calls
    /\ getLast' = -1 /\ ~discovered'
    /\ children' = << >>
    /\ state'.LastPartition = state.LastPartition
    /\ state'.NumPartitionsProcessed = state.NumPartitionsProcessed

\* C17 as claimed: a pause received while the run waits for new rows (its
\* context not cancelled) ends the wait; the run starts no discovery, no
\* batch child and no consolidation, leaves the cursor and the partition count
\* unchanged, sets the status PAUSED and continues as new.
C17_PauseInWaitPauses ==
    [][ (PauseReceivedInWait /\ ~cancelled) =>
            /\ NoDiscoveryInStep
            /\ pc' = "continued"
            /\ state'.CurrentFlowStatus = "STATUS_PAUSED"
      ]_vars

\* C17 amended: a pause received while the run waits for new rows ends the
\* wait; the run starts no discovery, no batch child and no consolidation and
\* leaves the cursor and the partition count unchanged.  With the context
\* cancelled it returns the context error.  Otherwise it drains the signal
\* channel and continues as new, with the status PAUSED when the last signal
\* drained is not a resume (no signal is pending behind the pause, or the
\* last one pending is a pause), and with the status unchanged when it is.
C17_PauseInWaitEndsCycle ==
    [][ PauseReceivedInWait =>
            /\ NoDiscoveryInStep
            /\ IF cancelled
               THEN /\ pc' = "failed"
                    /\ err' = "ctx"
                    /\ state' = state
               ELSE /\ pc' = "continued"
                    /\ signalChan' = << >>
                    /\ state' =
                          IF signalChan[Len(signalChan)] = "PauseSignal"
                          THEN [state EXCEPT !.CurrentFlowStatus = "STATUS_PAUSED"]
                          ELSE state
      ]_vars

\* C17 witness: a pause ended the wait of a run whose wait child was still
\* running, and the run continues as new in PAUSED
C17_Witness ==
    /\ pc = "continued"
    /\ waitChild = "running"
    /\ ~discovered
    /\ state.CurrentFlowStatus = "STATUS_PAUSED"
    /\ state = [entryState EXCEPT !.CurrentFlowStatus = "STATUS_PAUSED"]

\* the run is past its quiescence wait and before the end of its cycle
AfterWait ==
    pc \in {"getPartitions", "process", "fanout", "consolidate", "cleanup", "rename"}

\* the step ends a cycle that did its work, in a flow without InitialCopyOnly
CycleBoundary == AfterWait /\ pc' = "continued" /\ ~config.InitialCopyOnly

\* the signals pending on the channel hold a pause
PausePending == \E i \in 1..Len(signalChan) : signalChan[i] = "PauseSignal"

\* C18 as claimed: once a run is past its quiescence wait, no signal is
\* received, the status stays RUNNING and no child is touched by a signal
\* until the cycle ends; the cycle that ends with a pause pending has
\* advanced its state and starts its continuation in PAUSED.
C18_PendingPausePausesAtBoundary ==
    [][ /\ (AfterWait /\ pc' # "continued") =>
              /\ Len(signalChan') >= Len(signalChan)
              /\ activeSignal' = "NoopSignal"
              /\ state'.CurrentFlowStatus = "STATUS_RUNNING"
              /\ Len(signalChan') > Len(signalChan) => (pc' = pc /\ children' = children)
        /\ (CycleBoundary /\ PausePending) =>
              /\ state'.NumPartitionsProcessed
                    = entryState.NumPartitionsProcessed + Len(partitions)
              /\ state'.CurrentFlowStatus = "STATUS_PAUSED"
      ]_vars

\* C18 amended: once a run is past its quiescence wait, no signal is
\* received, the status stays RUNNING and no child is touched by a signal
\* until the cycle ends; at the end of the cycle the state is advanced and
\* the pending signals are drained, and the continuation is started in PAUSED
\* exactly when the last signal pending is a pause (a resume pending behind
\* the pause leaves the status RUNNING).
C18_PauseTakesEffectAtBoundary ==
    [][ /\ (AfterWait /\ pc' # "continued") =>
              /\ Len(signalChan') >= Len(signalChan)
              /\ activeSignal' = "NoopSignal"
              /\ state'.CurrentFlowStatus = "STATUS_RUNNING"
              /\ Len(signalChan') > Len(signalChan) => (pc' = pc /\ children' = children)
        /\ CycleBoundary =>
              /\ state'.NumPartitionsProcessed
                    = entryState.NumPartitionsProcessed + Len(partitions)
              /\ waitIdx = Len(children)
              /\ \A i \in 1..Len(children) : children[i] = "ok"
              /\ signalChan' = << >>
              /\ state'.CurrentFlowStatus =
                    IF signalChan # << >> /\ signalChan[Len(signalChan)] = "PauseSignal"
                    THEN "STATUS_PAUSED" ELSE "STATUS_RUNNING"
      ]_vars

\* C18 witness: a cycle whose two batch children completed with a pause
\* pending continues as new in PAUSED, its cursor advanced
C18_Witness ==
    /\ pc = "continued"
    /\ Len(children) >= 2
    /\ state.LastPartition # entryState.LastPartition
    /\ state.CurrentFlowStatus = "STATUS_PAUSED"

\* C19: the step by which a run of a flow without InitialCopyOnly continues
\* as new leaves no signal pending; its active signal is the fold of the
\* pending signals in arrival order (the last one decides: a pause gives a
\* pause, a resume gives none); the status handed forward is PAUSED exactly
\* when that active signal is a pause; the run takes no step between the
\* drain and the continuation, and the signals sent after the drain are
\* pending for the next run.
C19_SignalsDrainedBeforeContinuation ==
    [][ /\ (pc # "continued" /\ pc' = "continued" /\ ~config.InitialCopyOnly) =>
              /\ signalChan' = << >>
              /\ activeSignal' =
                    IF signalChan = << >> THEN activeSignal
                    ELSE IF signalChan[Len(signalChan)] = "PauseSignal"
                         THEN "PauseSignal" ELSE "NoopSignal"
              /\ (state'.CurrentFlowStatus = "STATUS_PAUSED")
                    <=> (activeSignal' = "PauseSignal")
        /\ pc = "continued" =>
              /\ state' = state /\ config' = config /\ activeSignal' = activeSignal
              /\ \/ pc' = "continued" /\ Len(signalChan') >= Len(signalChan)
                 \/ pc' = "start" /\ signalChan' = signalChan
      ]_vars

\* C19 witness: a cycle that did its work has drained a pause and continues
\* as new in PAUSED with no signal pending
C19_Witness ==
    /\ pc = "continued"
    /\ discovered
    /\ ~config.InitialCopyOnly
    /\ activeSignal = "PauseSignal"
    /\ signalChan = << >>
    /\ state.CurrentFlowStatus = "STATUS_PAUSED"

\* C21: in a run whose GetQRepPartitions returned an empty list no batch
\* child is started, the run goes on to ConsolidateQRepPartitions and
\* CleanupQRepFlow, and the cursor and the partition count stay those of the
\* run's entry; the run fails only in the consolidation, the cleanup or the
\* rename, and otherwise continues as new with both activities called.
C21_EmptyListSpawnsNoChild ==
    (discovered /\ partitions = << >>) =>
        /\ children = << >> /\ batches = << >>
        /\ CallsOf("QRepPartitionWorkflow") = {}
        /\ state.LastPartition = entryState.LastPartition
        /\ state.NumPartitionsProcessed = entryState.NumPartitionsProcessed
        /\ pc \in {"process", "consolidate", "cleanup", "rename", "continued", "failed"}
        /\ pc = "failed" => err \in {"consolidate", "cleanup", "rename"}
        /\ pc \in {"cleanup", "rename", "continued"} =>
              CallsOf("ConsolidateQRepPartitions") # {}
        /\ pc \in {"rename", "continued"} =>
              \E i \in CallsOf("ConsolidateQRepPartitions") :
                  \E j \in CallsOf("CleanupQRepFlow") : i < j

\* C21 witness: a second cycle found no partition and continues as new with
\* the cursor of the first
C21_Witness ==
    /\ pc = "continued"
    /\ discovered
    /\ partitions = << >>
    /\ runs >= 1
    /\ state.LastPartition # InitialLastPartition
    /\ CallsOf("CleanupQRepFlow") # {}

\* C23: a run of an InitialCopyOnly flow never starts the wait child; a run of
\* any other flow calls GetQRepPartitions only after it started the wait
\* child and took that child's future with no error, its context not
\* cancelled at that time; a run whose wait child returned an error, or whose
\* context was cancelled in the wait, has failed without a discovery.
C23_DiscoveryAfterWaitChild ==
    /\ config.InitialCopyOnly =>
          waitChild = "none" /\ CallsOf("QRepWaitForNewRowsWorkflow") = {}
    /\ ~config.InitialCopyOnly =>
          /\ \A j \in CallsOf("GetQRepPartitions") :
                /\ waitChild = "ok"
                /\ newRows
                /\ \E i \in CallsOf("QRepWaitForNewRowsWorkflow") : i < j
          /\ (waitChild = "failed" /\ newRows) =>
                pc = "failed" /\ err \in {"ctx", "waitForNewRows"} /\ getLast = -1
          /\ (pc = "failed" /\ err \in {"ctx", "waitForNewRows"}) =>
                CallsOf("GetQRepPartitions") = {}

\* C23 witness: the discovery of a run whose wait child completed
C23_Witness ==
    /\ ~config.InitialCopyOnly
    /\ pc = "process"
    /\ waitChild = "ok"
    /\ CallsOf("GetQRepPartitions") # {}

\* the QRepHasNewRows activity of this run of the wait loop has returned
\* without an error
RowsChecked == waitPc \notin {"start", "idle"} /\ ~(waitPc = "failed" /\ slept = 0)

\* C22: a run of QRepWaitForNewRowsWorkflow whose QRepHasNewRows returned
\* returns success without a sleep exactly when new rows were reported and the
\* mode is not full refresh; otherwise it sleeps WaitBetweenBatchesSeconds, or
\* 5 seconds when that is not positive, after which it returns success in
\* full-refresh mode and continues as new with its own config and
\* lastPartition otherwise; a run that is not in full-refresh mode returns
\* success only when new rows were reported.  A run whose activity or sleep
\* returned an error returns that error.
C22_WaitLoopIteration ==
    /\ (RowsChecked /\ hasNewRows /\ ~waitFullRefresh) =>
           waitPc = "returned" /\ slept = 0
    /\ (waitPc = "returned" /\ slept = 0) => hasNewRows /\ ~waitFullRefresh
    /\ (RowsChecked /\ ~(hasNewRows /\ ~waitFullRefresh)) =>
           /\ slept = IF waitConfig.WaitBetweenBatchesSeconds > 0
                      THEN waitConfig.WaitBetweenBatchesSeconds
                      ELSE 5
           /\ waitPc \in {"sleeping", "returned", "continued", "failed"}
           /\ waitPc = "returned" => waitFullRefresh
           /\ waitPc = "continued" =>
                 /\ ~waitFullRefresh
                 /\ continuedWith = [config |-> waitConfig,
                                     lastPartition |-> waitLastPartition]
           /\ waitPc = "failed" => waitCancelled
    /\ (waitPc = "returned" /\ ~waitFullRefresh) => hasNewRows
    /\ waitFullRefresh => waitConfig.Overwrite
    /\ ~RowsChecked => slept = 0 /\ waitPc \in {"start", "failed"}

\* C22 witness: a third run of the loop, reached by two runs that slept the
\* default of 5 seconds without new rows, has returned on new rows
C22_Witness ==
    /\ waitPc = "returned"
    /\ waitRuns = 2
    /\ waitConfig.WaitBetweenBatchesSeconds = 0
    /\ hasNewRows
    /\ slept = 0
    /\ ~waitCancelled

\* cloneTables has returned in this run of the snapshot flow
CloneTablesReturned ==
    /\ cloneArgs # NoCloneArgs
    /\ snapPc \in {"closeSlot", "returned", "failed"}

\* C24: while the snapshot flow clones tables, no more clone children are in
\* flight than max(SnapshotNumTablesInParallel, 1), whatever the number of
\* table mappings; at most one child is spawned per table mapping gone
\* through; and once cloneTables has returned, it has gone through every
\* table mapping and no child it spawned is in flight.
C24_ClonesWithinCap ==
    /\ Cardinality(InFlight(clones)) <=
           (IF snapConfig.SnapshotNumTablesInParallel > 1
            THEN snapConfig.SnapshotNumTablesInParallel ELSE 1)
    /\ Len(clones) <= tableIdx
    /\ tableIdx <= snapConfig.NumTables
    /\ CloneTablesReturned => tableIdx = snapConfig.NumTables /\ InFlight(clones) = {}
    /\ cloneArgs = NoCloneArgs => clones = << >>

\* C24 witness: three table mappings under a cap of 2; the third child was
\* spawned once one of the first two had completed, two are in flight, and
\* cloneTables waits for them
C24_Witness ==
    /\ snapPc = "cloning"
    /\ snapConfig.NumTables = 3
    /\ snapConfig.SnapshotNumTablesInParallel = 2
    /\ tableIdx = 3
    /\ Len(clones) = 3
    /\ clones[1].status = "ok"
    /\ InFlight(clones) = {2, 3}
    /\ ~ENABLED BoundSelectorWait

\* SLOT mode: DoInitialSnapshot without InitialSnapshotOnly
SlotMode == snapConfig.DoInitialSnapshot /\ ~snapConfig.InitialSnapshotOnly

\* C25: in SLOT mode CloseSlotKeepAlive is invoked only once SetupReplication
\* has succeeded and cloneTables has returned, with no clone child in flight;
\* and a run whose SetupReplication succeeded has invoked it exactly once by
\* the time it returns, whether the clones succeeded, failed, or the context
\* was cancelled while they were in flight.
C25_SlotClosedAfterClones ==
    SlotMode =>
        /\ \A i \in 1..Len(closeSlotCalls) :
              closeSlotCalls[i].at = "closeSlot" /\ closeSlotCalls[i].inFlight = {}
        /\ closeSlotCalls # << >> =>
              slotInfo # NoSlotInfo /\ CloneTablesReturned /\ InFlight(clones) = {}
        /\ (snapPc \in {"returned", "failed"} /\ slotInfo # NoSlotInfo) =>
              Len(closeSlotCalls) = 1
        /\ snapPc = "closeSlot" => closeSlotCalls = << >> /\ slotInfo # NoSlotInfo

\* C25 witness: a run whose context was cancelled, of whose three clones one
\* completed and one ended with an error, has returned the error of
\* cloneTables after its one CloseSlotKeepAlive
C25_Witness ==
    /\ SlotMode
    /\ snapCancelled
    /\ snapPc = "failed"
    /\ snapErr = "cloneTables"
    /\ Len(clones) = 3
    /\ clones[1].status = "ok"
    /\ clones[2].status = "failed"
    /\ Len(closeSlotCalls) = 1

\* TX mode: DoInitialSnapshot with InitialSnapshotOnly
TxMode == snapConfig.DoInitialSnapshot /\ snapConfig.InitialSnapshotOnly

\* TX mode, what holds at every point of a run
TxSnapshotState ==
    TxMode =>
        /\ (fMaintain = "none") <=> (fExportSnapshot = "none")
        /\ snapPc = "select" => fMaintain # "none" /\ fExportSnapshot # "none"
        /\ snapErr \in {"maintainTx", "exportSnapshot", "ctx"} =>
              snapPc = "failed" /\ clones = << >> /\ cloneArgs = NoCloneArgs
        /\ cloneArgs = NoCloneArgs => clones = << >>
        /\ cloneArgs # NoCloneArgs =>
              /\ fExportSnapshot = "ok"
              /\ cloneArgs.snapshotType = "SNAPSHOT_TYPE_TX"
              /\ cloneArgs.slotName = ""
              /\ cloneArgs.snapshotName \in SnapshotNames
              /\ cloneArgs.snapshotName = txnSnapshotState.SnapshotName
              /\ \A i \in 1..Len(clones) :
                    clones[i].snapshotName = txnSnapshotState.SnapshotName

\* TX mode, the step that leaves the Select: without the export snapshot it
\* returns the error of the branch that was ready and starts no clone
TxSelectStep ==
    (TxMode /\ snapPc = "select" /\ snapPc' # "select") =>
        /\ snapPc' \in {"failed", "cloning", "panicked"}
        /\ snapPc' = "cloning" => fExportSnapshot = "ok"
        /\ snapPc' = "panicked" => fMaintain = "ok"
        /\ snapPc' = "failed" =>
              /\ snapErr' \in {"maintainTx", "exportSnapshot", "ctx"}
              /\ snapErr' = "maintainTx" => fMaintain = "failed"
              /\ snapErr' = "exportSnapshot" => fExportSnapshot = "failed"
              /\ snapErr' = "ctx" => snapCancelled
        /\ fExportSnapshot # "ok" => snapPc' # "cloning" /\ clones' = << >>
        /\ (fMaintain = "failed" /\ fExportSnapshot = "running" /\ ~snapCancelled) =>
              snapPc' = "failed" /\ snapErr' = "maintainTx"

\* C26: in TX mode MaintainTx and WaitForExportSnapshot are started together;
\* a run that leaves the Select on an error of either activity or on the
\* cancellation of its context returns that error and has no clone child;
\* without the export snapshot no clone is started; and the clones are
\* started with the snapshot name WaitForExportSnapshot returned and the
\* empty slot name.
C26_TxSnapshotBeforeClones == []TxSnapshotState /\ [][TxSelectStep]_vars

\* C26 witness: a clone child runs on the snapshot "snap2" that
\* WaitForExportSnapshot returned, MaintainTx still running
C26_Witness ==
    /\ TxMode
    /\ snapPc = "cloning"
    /\ fMaintain = "running"
    /\ fExportSnapshot = "ok"
    /\ txnSnapshotState.SnapshotName = "snap2"
    /\ Len(clones) = 2
    /\ clones[2].snapshotName = "snap2"
    /\ clones[2].status = "running"
    /\ cloneArgs.slotName = ""

\* C27 as claimed: in TX mode a run whose MaintainTx ended with an error while
\* a clone child was in flight does not return success.
C27_MaintainTxErrorIsTerminal ==
    (TxMode /\ txLostInFlight /\ fMaintain = "failed") => snapPc # "returned"

\* C28 as claimed: a lookup that reached the catalog, whether the key has a
\* row or not, returns the non-null config_value of the row, else the
\* environment variable when it is set, else the default value.
C28_LookupOrder ==
    (/\ lookupResult # NoLookupResult
     /\ lookupInput.pool = "ok"
     /\ lookupInput.query \in {"row", "noRows"}) =>
        /\ lookupResult.err = "none"
        /\ lookupResult.val =
              IF lookupInput.query = "row" /\ lookupInput.value.Valid
              THEN lookupInput.value.String
              ELSE IF lookupInput.env.ok
              THEN lookupInput.env.val
              ELSE lookupInput.default.String

\* C29: a run that has taken its first step has its two query handlers set,
\* also when it was entered COMPLETED and returned at once; a run that has
\* not set them has started nothing and has not touched the state; the
\* handlers assign nothing; and "flow-status" answers with the
\* CurrentFlowStatus of the state that "qrep-flow-state" answers with, which
\* is the state of the run as it stands.
C29_QueriesReadTheState ==
    /\ pc # "start" => queryHandlers
    /\ ~queryHandlers =>
          /\ pc = "start"
          /\ calls = << >> /\ catalog = << >> /\ waitChild = "none"
          /\ state = entryState
    /\ QRepFlowStateQuery = state
    /\ FlowStatusQuery = QRepFlowStateQuery.CurrentFlowStatus

\* C29 witness: a run entered PAUSED and resumed, whose handlers answer
\* RUNNING while the state it was handed says PAUSED
C29_Witness ==
    /\ queryHandlers
    /\ runs = 1
    /\ entryState.CurrentFlowStatus = "STATUS_PAUSED"
    /\ FlowStatusQuery = "STATUS_RUNNING"
    /\ QRepFlowStateQuery.NumPartitionsProcessed > entryState.NumPartitionsProcessed

\* a step in which the run passes a status to syncStatusToCatalog
Emission == Len(catalog') > Len(catalog)

\* C30 as claimed: a status is passed to syncStatusToCatalog only in a step
\* that changes CurrentFlowStatus, and only by a run without a parent.
C30_SyncOnlyOnChange ==
    [][Emission => isRoot /\ state'.CurrentFlowStatus # state.CurrentFlowStatus]_vars

\* C30 amended: a status is passed to syncStatusToCatalog only by a run
\* without a parent, one status per step, and it is the status the step
\* leaves in CurrentFlowStatus; the step either changes the status or is the
\* entry of a run that was handed the status PAUSED, which sets and emits
\* PAUSED again; every step of a run without a parent that changes the
\* status emits it; a run with a parent emits nothing.
C30_SyncByRootOnUpdate ==
    [][/\ Emission =>
            /\ isRoot
            /\ catalog' = Append(catalog, state'.CurrentFlowStatus)
            /\ \/ state'.CurrentFlowStatus # state.CurrentFlowStatus
               \/ /\ pc = "start"
                  /\ state.CurrentFlowStatus = "STATUS_PAUSED"
                  /\ state' = state
       /\ (isRoot /\ state'.CurrentFlowStatus # state.CurrentFlowStatus) => Emission
       /\ ~isRoot => catalog' = << >>]_vars

\* C30 witness: the clone child of a snapshot flow has set COMPLETED after
\* its partitions and has emitted nothing
C30_Witness ==
    /\ ~isRoot
    /\ pc = "continued"
    /\ state.CurrentFlowStatus = "STATUS_COMPLETED"
    /\ entryState.CurrentFlowStatus = "STATUS_RUNNING"
    /\ partitions # << >>
    /\ catalog = << >>

\* C31 as claimed: in a flow with DstTableFullResync every continue-as-new
\* hands forward a config whose destination identifier is the original name,
\* and every CreateTablesFromExisting is started with the original table as
\* the existing table.
C31_SuffixNeverCarriedForward ==
    config.DstTableFullResync =>
        /\ pc = "continued" => config.ResyncSuffixes = 0
        /\ \A i \in CallsOf("CreateTablesFromExisting") : calls[i].dest = 0

\* the activities and child workflows started in a step
StartedInStep ==
    IF Len(calls') > Len(calls)
    THEN {calls'[i].op : i \in (Len(calls) + 1)..Len(calls')}
    ELSE {}

\* once NeedsResync is cleared it stays cleared, and no step starts
\* CreateTablesFromExisting or RenameTables
ResyncDoneStep ==
    ~state.NeedsResync =>
        /\ ~state'.NeedsResync
        /\ StartedInStep \cap {"CreateTablesFromExisting", "RenameTables"} = {}

\* a run handed a state with NeedsResync cleared has started neither of the
\* two, and no run has started either of them twice
ResyncDoneRun ==
    /\ ~entryState.NeedsResync =>
          /\ ~state.NeedsResync
          /\ CallsOf("CreateTablesFromExisting") = {}
          /\ CallsOf("RenameTables") = {}
    /\ Cardinality(CallsOf("CreateTablesFromExisting")) <= 1
    /\ Cardinality(CallsOf("RenameTables")) <= 1

C33_SuccessMeansEveryTableCloned ==
    snapPc = "returned" =>
        (snapConfig.DoInitialSnapshot =>
            /\ Len(clones) = snapConfig.NumTables
            /\ \A i \in 1..Len(clones) : clones[i].status = "ok")

\* TX mode: the run has passed the test of sessionError that follows the
\* Select, and stands at the call of cloneTables or beyond it
PastSessionCheck ==
    \/ snapPc \in {"cloning", "panicked", "returned"}
    \/ snapPc = "failed" /\ snapErr = "cloneTables"

\* C34 as claimed: in TX mode a run goes on from the Select to cloneTables only
\* with the snapshot state a successful WaitForExportSnapshot produced,
\* whichever of the two activities completes first.
C34_CloningOnlyWithSnapshotState ==
    (TxMode /\ PastSessionCheck) =>
        /\ fExportSnapshot = "ok"
        /\ cloneArgs # NoCloneArgs
        /\ cloneArgs.snapshotName = txnSnapshotState.SnapshotName

\* the staging path is an s3:// path
S3Staging == HasPrefix(stagingPath, S3Scheme)

\* C35 as claimed: a call of CleanupQRepFlow for a flow job that returned
\* without an error has left no object of that job in the bucket of an s3://
\* staging path; no call deletes an object staged by another flow job, also
\* not by one whose name starts with the name of the job; with a staging path
\* that is not s3:// nothing is deleted and the call succeeds; and a second
\* call leaves the bucket as the first call left it.
C35_CleanupDeletesOwnStageOnly ==
    /\ deleted \subseteq StagedBy(job)
    /\ (S3Staging /\ stagePc = "returned") => objects \cap StagedBy(job) = {}
    /\ ~S3Staging => deleted = {} /\ stagePc # "failed"
    /\ (stagePc = "returned" /\ firstEnd.done) => objects = firstEnd.objects

============================================================================
